---- MODULE Spec2Model ----
(***************************************************************************)
(* A model of understruct: the service backbone (App, load, start) and the *)
(* IPC client's message correlation (Client.connect).                      *)
(*                                                                         *)
(* JavaScript values are records with a "type" field.  Texts (service      *)
(* names, function sources) are sequences of tokens, so that the regular   *)
(* expression of readArgNames is computed on them and not assumed.         *)
(***************************************************************************)
EXTENDS Integers, Sequences, FiniteSets, TLC

VARIABLES
    given,       \* start: what was passed as layers: "array", or the typeof of a
                 \* value that is no array
    layers,      \* start: the elements of the layers argument when it is an array
    pc,          \* start: position in the function body
    idx,         \* start: the loop variable idx (0-based, as in the source)
    k,           \* start: number of names of the current layer already mapped / bound
    pending,     \* start: the promises load returned for the current layer
    all,         \* start: the state of Promise.all( pending )
    error,       \* start: the failure start rejected with
    services,    \* App: this.services, name -> instance
    listeners,   \* App: the 'service-bind' listeners of the backbone's bus, in order
    regs,        \* every onServiceBind / onConformingServiceBind call made so far
    cbLog,       \* per registration: the arguments its callback was invoked with
    bindLog,     \* every 'service-bind' event published so far
    invoked,     \* every factory invocation so far: name, arguments, this
    held,        \* whether code outside start holds a reference to the backbone
    apiLog,      \* the outcome of every direct call of bind made by such code
    midx,        \* Client: the call id counter
    pendings,    \* Client: the pending map, call id -> timer id
    promise,     \* Client: per issued call, the state of the promise returned
    timer,       \* Client: per issued call, the state of its timeout timer
    connected,   \* Client: this._connected
    sent,        \* Client: the requests emitted to the server
    attempts,    \* the arrivals and timer expiries so far
    links,       \* the 'connect' and 'disconnect' events of the channel so far, each
                 \* with the call ids that were pending
    mode,        \* Server: "stopped", or the mode it was started in
    inflight,    \* Server: the requests whose handler was called and has not settled
    handled,     \* Server: the requests whose handler settled, each with what it did
    raised,      \* Server: the events emitted locally on the server object
    replies,     \* Server: everything emitted or broadcast to peers, in order
    ridx,        \* how many of these the client's socket has delivered
    emitted,     \* Client: the events re-emitted locally on the client object
    channel,     \* Server: the calls made on this._ipc: serve, server.start, and the
                 \* topics server.on was called with
    members,     \* Server: the functions assigned to the server object, name -> origin
    directLog,   \* the calls of these functions made on the server object
    descriptor,  \* InterfaceDef: the descriptor given to compile
    candidate,   \* InterfaceDef: the value given to the compiled predicate
    verdict,     \* InterfaceDef: what the predicate did
    predicate,   \* InterfaceDef: what compile returned to a caller that keeps it
    subs,        \* the listeners registered by on / once, on the backbone's own bus
                 \* and on bound instances, in order
    subLog,      \* every call of App.on / App.once so far
    linked,      \* IPCService: what require('../app') gave its module
    gets,        \* IPCService: every access of a client / server / service getter
    slots,       \* IPCService: this._client, this._server, this._service
    made,        \* every Client / Server a make function constructed
    makes        \* every invocation of a make function, with its position

appVars == <<given, layers, pc, idx, k, pending, all, error, services, listeners,
             regs, cbLog, bindLog, invoked, held, apiLog>>
ipcVars == <<midx, pendings, promise, timer, connected, sent, attempts, links>>
vars == <<given, layers, pc, idx, k, pending, all, error, services, listeners,
          regs, cbLog, bindLog, invoked, held, apiLog,
          midx, pendings, promise, timer, connected, sent, attempts, links,
          mode, inflight, handled, raised, replies, ridx, emitted, channel, members, directLog,
          descriptor, candidate, verdict, predicate, subs, subLog,
          linked, gets, slots, made, makes>>
hostVars == <<mode, inflight, handled, raised, replies, ridx, emitted, channel, members, directLog>>
ifVars == <<descriptor, candidate, verdict, predicate>>
busVars == <<subs, subLog>>
svcVars == <<linked, gets, slots, made, makes>>

(***************************************************************************)
(* Bounds of the model.                                                    *)
(***************************************************************************)
MaxLayers == 2        \* layers in a layer list
MaxRegs == 2          \* onServiceBind / onConformingServiceBind calls
MaxApiBinds == 2      \* direct bind calls by code holding the backbone
MaxCalls == 2         \* message calls issued by the client
MaxArrivals == 3      \* responses and errors arriving at the client
MaxForeign == 1       \* requests the server receives from another peer
MaxRaised == 3        \* events emitted locally on the server object
MaxCompiles == 2      \* calls of compile on a descriptor and on what compile returned
MaxSubs == 2          \* calls of App.on / App.once
MaxDirect == 2        \* calls of a function of the server object
MaxLinks == 3         \* 'connect' and 'disconnect' events of the channel

(***************************************************************************)
(* JavaScript values.                                                      *)
(***************************************************************************)
Undefined == [type |-> "undefined"]
Null == [type |-> "null"]
Str(text) == [type |-> "string", text |-> text]
Num(n) == [type |-> "number", n |-> n]
Method == [type |-> "function"]
Obj(id, props) == [type |-> "object", id |-> id, props |-> props]

\* typeof value
TypeOf(value) ==
    IF value.type \in {"null", "array"} THEN "object" ELSE value.type

\* obj[name] for an obj that is neither undefined nor null
Prop(obj, name) ==
    IF obj.type = "object" /\ name \in DOMAIN obj.props
    THEN obj.props[name] ELSE Undefined

\* The members every plain object {} inherits; one stands for all of them.
ObjectPrototype == {<<"toString">>}

\* map[key] of a plain object {} used as a map: an own property, else an
\* inherited member, else undefined
Get(map, key) ==
    IF key \in DOMAIN map THEN map[key]
    ELSE IF key \in ObjectPrototype THEN Method
    ELSE Undefined

\* a variant of Put that starts a fresh object holding the one property
PutFresh(map, key, value) ==
    [x \in {key} |-> value]

\* map[key] = value
Put(map, key, value) ==
    [x \in (DOMAIN map) \cup {key} |-> IF x = key THEN value ELSE map[x]]

Range(seq) == {seq[i] : i \in DOMAIN seq}

(***************************************************************************)
(* Errors.                                                                 *)
(***************************************************************************)
ReferenceError(ident) ==
    [type |-> "ReferenceError", message |-> <<ident, <<"is not defined">> >>]
TypeErrorOf(what) ==
    [type |-> "TypeError", message |-> <<what>>]
UnresolvedDependency(argName, name) ==
    [type |-> "Error", message |-> << <<"Unresolved dependency:">>, argName, <<"for">>, name>>]
FactoryFailure(name) ==
    [type |-> "Error", message |-> << <<"factory failed">>, name>>]
\* new TypeError('Service layers must be an array')
LayersNotArray == TypeErrorOf(<<"Service layers must be an array">>)

NoError == [type |-> "none"]

\* What evaluating a piece of code ends with: a value, or a thrown failure.
Return(value) == [threw |-> FALSE, value |-> value]
Throw(err) == [threw |-> TRUE, value |-> err]

(***************************************************************************)
(* Texts.  A text is a sequence of tokens: words, and the punctuation the  *)
(* regular expression of readArgNames looks at.                            *)
(***************************************************************************)
Punctuation == {"function", "(", ")", ",", "=>", "{", "}"}

\* \w+
IsWord(token) == token \notin Punctuation

RECURSIVE Join(_)
\* params.join(',')
Join(texts) ==
    IF Len(texts) = 0 THEN <<>>
    ELSE IF Len(texts) = 1 THEN texts[1]
    ELSE texts[1] \o <<",">> \o Join(Tail(texts))

\* value.toString() of a string or of a function
toString(value) ==
    IF value.type = "string" THEN value.text
    ELSE IF value.type = "function"
    THEN <<"function", "(">> \o Join(value.params) \o <<")", "{", "}">>
    ELSE <<"[object Object]">>

RECURSIVE Split(_)
\* text.split(',')
Split(text) ==
    IF \A i \in DOMAIN text : text[i] # ","
    THEN <<text>>
    ELSE LET c == CHOOSE i \in DOMAIN text :
                      text[i] = "," /\ \A j \in 1..(i - 1) : text[j] # ","
         IN <<SubSeq(text, 1, c - 1)>> \o Split(SubSeq(text, c + 1, Len(text)))

\* /^(?:function(?:\s+\w+)?)?\s*\(([^)]+)/.exec( src ): the captured group, or
\* <<>> when the expression does not match (the group is never empty)
ArgListOf(src) ==
    LET open == IF Len(src) >= 1 /\ src[1] = "(" THEN 1
                ELSE IF Len(src) >= 2 /\ src[1] = "function" /\ src[2] = "(" THEN 2
                ELSE IF Len(src) >= 3 /\ src[1] = "function" /\ IsWord(src[2])
                        /\ src[3] = "(" THEN 3
                ELSE 0
        rest == SubSeq(src, open + 1, Len(src))
        close == IF \E i \in DOMAIN rest : rest[i] = ")"
                 THEN CHOOSE i \in DOMAIN rest :
                          rest[i] = ")" /\ \A j \in 1..(i - 1) : rest[j] # ")"
                 ELSE Len(rest) + 1
    IN IF open = 0 THEN <<>> ELSE SubSeq(rest, 1, close - 1)

\* readArgNames( fn, name ): when the first expression does not match, the
\* second one is applied to fns, a name nothing declares
readArgNames(fn, name) ==
    LET src == toString(fn)
        r == ArgListOf(src)
    IN IF r # <<>> THEN Return(Split(r))
       ELSE Throw(ReferenceError(<<"fns">>))

(***************************************************************************)
(* Interface definitions (interface-def.js).  A list descriptor is an      *)
(* array of property names, a mapping descriptor an object with ordered    *)
(* entries <<name, type>>, a type being a tag or a nested descriptor.      *)
(***************************************************************************)
Tag(t) == [type |-> "string", tag |-> t]
IfList(items) == [type |-> "array", items |-> items]
IfMap(entries) == [type |-> "object", entries |-> entries]
IfTestFn(tests) == [type |-> "function", IsIFDef |-> TRUE, tests |-> tests]

TagNames == {"function", "object", "array", "string", "number", "boolean"}

\* The members the object literal Tests inherits; one stands for all of them.
InheritedTags == {"toString"}

\* Tests[type]( value ), as the && chain of iftest reads it: an inherited
\* toString ignores the value and returns a text that is not empty
Tests(type, value) ==
    IF type \in InheritedTags THEN TRUE
    ELSE IF type = "array" THEN value.type = "array" ELSE TypeOf(value) = type

\* a variant of IsIFDef that finds no marker
IsIFDefNever(ifdef) == FALSE

\* ifdef.__IsIFDef
IsIFDef(ifdef) == ifdef.type = "function" /\ "IsIFDef" \in DOMAIN ifdef

RECURSIVE EntriesOfFunctions(_, _)
\* a variant of EntriesOf that asks for functions
EntriesOfFunctions(items, seen) ==
    IF Len(items) = 0 THEN <<>>
    ELSE IF items[1] \in seen THEN EntriesOfFunctions(Tail(items), seen)
    ELSE << <<items[1], Tag("function")>> >> \o
         EntriesOfFunctions(Tail(items), seen \cup {items[1]})

RECURSIVE EntriesOf(_, _)
\* the reduce of compile: def[item] = 'object' for every item of the list
EntriesOf(items, seen) ==
    IF Len(items) = 0 THEN <<>>
    ELSE IF items[1] \in seen THEN EntriesOf(Tail(items), seen)
    ELSE << <<items[1], Tag("object")>> >> \o EntriesOf(Tail(items), seen \cup {items[1]})

RECURSIVE compile(_)
RECURSIVE CompileEntries(_)

\* test( type, name ): the test of one property, a tag or a compiled nested descriptor
test(type, name) ==
    IF TypeOf(type) = "string"
    THEN IF type.tag \in TagNames \cup InheritedTags
         THEN Return([name |-> name, nested |-> FALSE, isa |-> type.tag])
         ELSE Throw([type |-> "Error", message |-> <<"Unsupported type", type.tag, name>>])
    ELSE LET isa == compile(type)
         IN IF isa.threw THEN isa
            ELSE Return([name |-> name, nested |-> TRUE, isa |-> isa.value])

\* Object.keys( ifdef ).map( ... ) of compile
CompileEntries(entries) ==
    IF Len(entries) = 0 THEN Return(<<>>)
    ELSE LET first == test(entries[1][2], entries[1][1])
         IN IF first.threw THEN first
            ELSE LET rest == CompileEntries(Tail(entries))
                 IN IF rest.threw THEN rest
                    ELSE Return(<<first.value>> \o rest.value)

\* compile( ifdef )
compile(ifdef) ==
    IF ifdef.type \in {"undefined", "null"}
    THEN Throw(TypeErrorOf("Cannot read properties of " \o ifdef.type))
    ELSE IF IsIFDef(ifdef) THEN Return(ifdef)
    ELSE IF ifdef.type # "array" /\ TypeOf(ifdef) # "object"
    THEN Throw([type |-> "Error", message |-> <<"Bad interface definition">>])
    ELSE LET entries == IF ifdef.type = "array"
                        THEN EntriesOf(ifdef.items, {})
                        ELSE ifdef.entries
             tests == CompileEntries(entries)
         IN IF tests.threw THEN tests ELSE Return(IfTestFn(tests.value))

RECURSIVE iftest(_, _)
RECURSIVE ApplyTests(_, _, _)

\* tests.reduce( ( ok, test ) => (ok && test( obj )), true )
ApplyTests(tests, obj, ok) ==
    IF Len(tests) = 0 THEN Return(ok)
    ELSE IF ~ok THEN ApplyTests(Tail(tests), obj, FALSE)
    ELSE IF obj.type \in {"undefined", "null"}
    THEN Throw(TypeErrorOf("Cannot read properties of " \o obj.type))
    ELSE LET t == tests[1]
             value == Prop(obj, t.name)
             res == IF ~t.nested THEN Return(Tests(t.isa, value))
                    ELSE IF value = Undefined THEN Return(FALSE)
                    ELSE iftest(t.isa, value)
         IN IF res.threw THEN res
            ELSE ApplyTests(Tail(tests), obj, res.value)

\* the predicate compile returns, applied to obj
iftest(fn, obj) == ApplyTests(fn.tests, obj, TRUE)

(***************************************************************************)
(* The backbone (class App).  The operators take the fields they read and  *)
(* return the fields they change.                                          *)
(***************************************************************************)
\* the event object { name, service }
Event(name, service) == [type |-> "object", name |-> name, service |-> service]

\* array.concat( item ) on a sequence of sequences
Push(log, i, item) == [log EXCEPT ![i] = Append(@, item)]

\* listeners without the handler of registration i (removeListener)
Without(ls, i) == SelectSeq(ls, LAMBDA x : x # i)

\* source instanceof EventEmitter
InstanceOfEventEmitter(source) ==
    /\ source.type = "object"
    /\ "proto" \in DOMAIN source
    /\ source.proto = "EventEmitter"

\* eventName.indexOf(':'), counted in tokens
IndexOf(text) ==
    IF \E i \in DOMAIN text : text[i] = ":"
    THEN (CHOOSE i \in DOMAIN text :
             text[i] = ":" /\ \A j \in 1..(i - 1) : text[j] # ":") - 1
    ELSE -1

\* the callback of a caller of onServiceBind, and the callback of
\* _addEventListener, which tries again
CallerCallback == [type |-> "caller"]
Retry(eventName, listener, method) ==
    [type |-> "retry", eventName |-> eventName, listener |-> listener, method |-> method]

\* this.onServiceBind( sourceName, () => app._addEventListener( ... ) ) for a
\* sourceName that this.services does not have: the handler is registered
Defer(sourceName, callback, st) ==
    [st EXCEPT !.regs = Append(@, [kind |-> "named", name |-> sourceName, once |-> TRUE,
                                   at |-> Len(st.bindLog), found |-> FALSE,
                                   threw |-> FALSE, callback |-> callback]),
               !.cbLog = Append(@, <<>>),
               !.listeners = Append(@, Len(st.regs) + 1)]

\* source[method]( eventName, listener ), super[method]( eventName, listener )
Subscribe(target, eventName, listener, method, st) ==
    [st EXCEPT !.subs = Append(@, [target |-> target, event |-> eventName,
                                   listener |-> listener, method |-> method])]

\* App._addEventListener( eventName, listener, method )
_addEventListener(eventName, listener, method, st) ==
    LET at == IndexOf(eventName)
        sourceName == SubSeq(eventName, 1, at)
        source == Get(st.services, sourceName)
    IN IF at > 0
       THEN IF source = Undefined
            THEN Defer(sourceName, Retry(eventName, listener, method), st)
            ELSE IF ~InstanceOfEventEmitter(source)
            THEN [st EXCEPT !.threw = TRUE,
                            !.error = [type |-> "Error",
                                       message |-> <<"Event source must be an EventEmitter">>
                                                   \o sourceName]]
            ELSE Subscribe(source.id, SubSeq(eventName, at + 2, Len(eventName)),
                           listener, method, st)
       ELSE Subscribe("backbone", IF at = 0 THEN Tail(eventName) ELSE eventName,
                      listener, method, st)

RECURSIVE emit(_, _, _)
\* this.emit( 'service-bind', event ): the handlers registered when the call
\* starts run in order; a handler that throws ends the call.  queue is what is
\* left of that copy, st the fields of the backbone and the logs so far.
emit(queue, event, st) ==
    IF Len(queue) = 0 THEN st
    ELSE LET i == queue[1]
             r == st.regs[i]
         IN IF r.kind = "named"
            THEN \* the handler of onServiceBind
                 IF event.name = r.name
                 THEN LET called == [st EXCEPT !.cbLog = Push(@, i, event)]
                          ran == IF r.callback.type = "retry"
                                 THEN _addEventListener(r.callback.eventName,
                                                        r.callback.listener,
                                                        r.callback.method, called)
                                 ELSE called
                      IN IF ran.threw THEN ran
                         ELSE emit(Tail(queue), event,
                                   [ran EXCEPT !.listeners =
                                                  IF r.once THEN Without(@, i) ELSE @])
                 ELSE emit(Tail(queue), event, st)
            ELSE \* the handler of onConformingServiceBind
                 LET ok == iftest(r.iftest, event.service)
                 IN IF ok.threw THEN [st EXCEPT !.threw = TRUE, !.error = ok.value]
                    ELSE IF ok.value
                    THEN emit(Tail(queue), event, [st EXCEPT !.cbLog = Push(@, i, event)])
                    ELSE emit(Tail(queue), event, st)

\* the fields of the backbone and the logs, as one record
Fields(svc, ls, rs, cbs, binds, sb) ==
    [services |-> svc, listeners |-> ls, regs |-> rs, cbLog |-> cbs, bindLog |-> binds,
     subs |-> sb, threw |-> FALSE, error |-> NoError]

\* a variant of bind that keeps the first instance of a name and publishes
\* nothing for a second one
bindIfAbsent(name, service, svc, ls, rs, cbs, binds, sb) ==
    LET event == Event(name, service)
    IN IF name \in DOMAIN svc
       THEN Fields(svc, ls, rs, cbs, binds, sb)
       ELSE emit(ls, event,
                 Fields(Put(svc, name, service), ls, rs, cbs, Append(binds, event), sb))

\* a variant of bind that publishes the event before it stores the instance
bindAfterEmit(name, service, svc, ls, rs, cbs, binds, sb) ==
    LET event == Event(name, service)
        st == emit(ls, event, Fields(svc, ls, rs, cbs, Append(binds, event), sb))
    IN [st EXCEPT !.services = Put(svc, name, service)]

\* App.bind( name, service )
bind(name, service, svc, ls, rs, cbs, binds, sb) ==
    LET event == Event(name, service)
    IN emit(ls, event,
            Fields(Put(svc, name, service), ls, rs, cbs, Append(binds, event), sb))

\* App.onServiceBind( name, callback, once )
onServiceBind(name, once, svc, ls, rs, cbs, binds) ==
    LET service == Get(svc, name)
        i == Len(rs) + 1
        reg == [kind |-> "named", name |-> name, once |-> once,
                at |-> Len(binds), found |-> service # Undefined, threw |-> FALSE,
                callback |-> CallerCallback]
    IN IF service # Undefined
       THEN [regs |-> Append(rs, reg),
             cbLog |-> Append(cbs, <<Event(name, service)>>),
             listeners |-> IF once THEN ls ELSE Append(ls, i)]
       ELSE [regs |-> Append(rs, reg),
             cbLog |-> Append(cbs, <<>>),
             listeners |-> Append(ls, i)]

\* Object.keys( services ): the names in the order they were first bound
RECURSIVE KeysOf(_, _)
KeysOf(binds, seen) ==
    IF Len(binds) = 0 THEN <<>>
    ELSE IF binds[1].name \in seen THEN KeysOf(Tail(binds), seen)
    ELSE <<binds[1].name>> \o KeysOf(Tail(binds), seen \cup {binds[1].name})

RECURSIVE Filter(_, _, _)
\* Object.keys( services ).filter( name => iftest( services[name] ) )
Filter(names, fn, svc) ==
    IF Len(names) = 0 THEN Return(<<>>)
    ELSE LET ok == iftest(fn, svc[names[1]])
         IN IF ok.threw THEN ok
            ELSE LET rest == Filter(Tail(names), fn, svc)
                 IN IF rest.threw THEN rest
                    ELSE Return((IF ok.value THEN <<names[1]>> ELSE <<>>) \o rest.value)

\* App.listConformingServices( ifdef )
listConformingServices(ifdef, svc, binds) ==
    LET fn == compile(ifdef)
    IN IF fn.threw THEN fn ELSE Filter(KeysOf(binds, {}), fn.value, svc)

\* App.onConformingServiceBind( ifdef, callback )
onConformingServiceBind(ifdef, svc, ls, rs, cbs, binds) ==
    LET fn == compile(ifdef)
        i == Len(rs) + 1
        conforming == listConformingServices(fn.value, svc, binds)
        failed == IF fn.threw THEN fn ELSE conforming
        reg == [kind |-> "conforming", ifdef |-> ifdef,
                iftest |-> IF fn.threw THEN Undefined ELSE fn.value,
                at |-> Len(binds), threw |-> failed.threw]
    IN IF failed.threw
       THEN [regs |-> Append(rs, reg), cbLog |-> Append(cbs, <<>>), listeners |-> ls]
       ELSE [regs |-> Append(rs, reg),
             cbLog |-> Append(cbs, [j \in DOMAIN conforming.value |->
                                       Event(conforming.value[j], svc[conforming.value[j]])]),
             listeners |-> Append(ls, i)]

(***************************************************************************)
(* load and start.                                                         *)
(***************************************************************************)
\* A factory function: its declared parameter names and what its body does:
\* "return" result, "throw", or return a promise that will "reject".
Factory(id, params, does, result) ==
    [type |-> "function", id |-> id, params |-> params, does |-> does, result |-> result]

Fulfilled(value) == [state |-> "fulfilled", value |-> value, ran |-> FALSE]
Rejected(err) == [state |-> "rejected", value |-> err, ran |-> FALSE]

RECURSIVE Lookup(_, _, _)
\* the .map( argName => ... ) of load: the instances of the names, or the
\* failure for the first name that has none
Lookup(argNames, name, svc) ==
    IF Len(argNames) = 0 THEN Return(<<>>)
    ELSE LET arg == Get(svc, argNames[1])
         IN IF arg = Undefined THEN Throw(UnresolvedDependency(argNames[1], name))
            ELSE LET rest == Lookup(Tail(argNames), name, svc)
                 IN IF rest.threw THEN rest ELSE Return(<<arg>> \o rest.value)

\* load( name, def, app ) up to and including the call of the factory: the
\* promise it returns.  A factory that was called and did not throw leaves the
\* promise "running" until its result settles.
load(name, def, svc) ==
    IF TypeOf(def) = "function"
    THEN LET argNames == readArgNames(Str(name), def)
             args == Lookup(argNames.value, name, svc)
         IN IF argNames.threw THEN Rejected(argNames.value)
            ELSE IF args.threw THEN Rejected(args.value)
            ELSE [state |-> IF def.does = "throw" THEN "rejected" ELSE "running",
                  value |-> IF def.does = "throw" THEN FactoryFailure(name) ELSE def,
                  ran |-> TRUE, args |-> args.value]
    ELSE Fulfilled(def)

\* what the promise of a running factory settles to
Settled(name, p) ==
    IF p.value.does = "return"
    THEN [p EXCEPT !.state = "fulfilled", !.value = p.value.result]
    ELSE [p EXCEPT !.state = "rejected", !.value = FactoryFailure(name)]

\* a variant of AllAfter that rejects with an error of its own
AllAfterAnonymous(allp, p) ==
    IF allp.state = "pending" /\ p.state = "rejected"
    THEN [state |-> "rejected", value |-> [type |-> "Error", message |-> <<>>]]
    ELSE allp

\* Promise.all( pending ) after promise p settled: the first rejection wins
AllAfter(allp, p) ==
    IF allp.state = "pending" /\ p.state = "rejected"
    THEN [state |-> "rejected", value |-> p.value]
    ELSE allp

(***************************************************************************)
(* The inputs of the model.                                                *)
(***************************************************************************)
Settings == Obj("settings", [message |-> Str(<<"Test message">>)])
DbService == Obj("db", [getMessage |-> Method])
Plain == Obj("plain", [message |-> Str(<<"Test message">>), count |-> Num(1)])

db == Factory("db", << <<"settings">> >>, "return", DbService)
make == Factory("make", << <<"settings">> >>, "return", DbService)
makeThrow == Factory("makeThrow", << <<"settings">> >>, "throw", Undefined)
makeReject == Factory("makeReject", << <<"settings">> >>, "reject", Undefined)
\* a factory that declares no parameter
bare == Factory("bare", <<>>, "return", DbService)

\* A layer is the sequence of its <<name, def>> entries, in key order.  The
\* names "(settings)" and "(toString)" read as an argument list.
SampleLayers ==
    { << <<<<"settings">>, Settings>> >>,
      << <<<<"db">>, db>> >>,
      << <<<<"(", "settings", ")">>, make>> >>,
      << <<<<"(", "toString", ")">>, make>>, <<<<"out">>, Undefined>> >>,
      << <<<<"db">>, Null>>, <<<<"(", "toString", ")">>, makeReject>> >>,
      << <<<<"(", "toString", ")">>, makeThrow>> >>,
      << <<<<"db">>, bare>> >>,
      << <<<<"settings">>, Settings>>, <<<<"db">>, db>> >>,
      << <<<<"db">>, db>>, <<<<"settings">>, Settings>> >> }

RECURSIVE SeqsUpTo(_, _)
SeqsUpTo(S, n) ==
    IF n = 0 THEN {<<>>}
    ELSE LET shorter == SeqsUpTo(S, n - 1)
         IN shorter \cup {Append(q, x) : q \in shorter, x \in S}

\* values passed as layers that are no array: nothing, an object, a text
NotArrays == {"undefined", "object", "string"}

\* a variant of isArray that takes every value for an array
isArrayAlways(kind) == TRUE

\* Array.isArray( layers )
isArray(kind) == kind = "array"

LayerLists == SeqsUpTo(SampleLayers, MaxLayers)

\* what code holding the backbone binds, waits for and asks for
ApiValues == {DbService, Plain, Undefined, Null}
WaitNames == {<<"db">>}
ApiBinds == {<<<<"db">>, v>> : v \in ApiValues} \cup {<<<<"settings">>, Plain>>}
ApiIfDefs == {IfMap(<< <<"getMessage", Tag("function")>> >>),
              IfMap(<< <<"message", Tag("string")>> >>)}

names == IF idx < Len(layers)
         THEN [j \in DOMAIN layers[idx + 1] |-> layers[idx + 1][j][1]]
         ELSE <<>>
layer == IF idx < Len(layers) THEN layers[idx + 1] ELSE <<>>

(***************************************************************************)
(* The actions of start.                                                   *)
(***************************************************************************)
\* the predicate was not applied yet
NotApplied == [threw |-> FALSE, value |-> Undefined, applied |-> FALSE]
NotCompiled == [threw |-> FALSE, value |-> Undefined, times |-> 0]

\* a server that was not started, with nothing received or emitted
InitHost ==
    /\ mode = "stopped"
    /\ inflight = <<>>
    /\ handled = <<>>
    /\ raised = <<>>
    /\ replies = <<>>
    /\ ridx = 0
    /\ emitted = <<>>
    /\ channel = [serve |-> 0, start |-> 0, listeners |-> {}]
    /\ members = <<>>
    /\ directLog = <<>>

\* no descriptor compiled
InitInterface ==
    /\ descriptor = IfList(<<>>)
    /\ candidate = Undefined
    /\ verdict = NotApplied
    /\ predicate = NotCompiled

\* start not yet called, a client not yet connected
InitBackbone ==
    /\ \/ given = "array" /\ layers \in LayerLists
       \/ given \in NotArrays /\ layers = <<>>
    /\ pc = "idle"
    /\ idx = 0
    /\ k = 0
    /\ pending = <<>>
    /\ all = [state |-> "pending"]
    /\ error = NoError
    /\ services = <<>>
    /\ listeners = <<>>
    /\ regs = <<>>
    /\ cbLog = <<>>
    /\ bindLog = <<>>
    /\ invoked = <<>>
    /\ held = FALSE
    /\ apiLog = <<>>
    /\ midx = 0
    /\ pendings = <<>>
    /\ promise = <<>>
    /\ timer = <<>>
    /\ connected = FALSE
    /\ sent = <<>>
    /\ attempts = [n |-> 0, by |-> <<>>, threw |-> {}, last |-> <<>>]
    /\ links = <<>>
    /\ subs = <<>>
    /\ subLog = <<>>

\* no IPCService module loaded, none constructed
InitService ==
    /\ linked = "unloaded"
    /\ gets = <<>>
    /\ slots = [m \in {"client", "server", "service"} |-> 0]
    /\ made = <<>>
    /\ makes = <<>>

Init ==
    /\ InitBackbone
    /\ InitHost
    /\ InitInterface
    /\ InitService

\* start, up to the first test of the loop: the backbone is created; with no
\* layer the loop ends at once and the backbone is returned
StartApp ==
    /\ pc = "idle"
    /\ idx' = 0
    /\ k' = 0
    /\ pending' = <<>>
    /\ all' = [state |-> "pending"]
    /\ pc' = IF ~isArray(given) THEN "failed"
             ELSE IF Len(layers) = 0 THEN "done"
             ELSE IF Len(layers[1]) = 0 THEN "await" ELSE "load"
    /\ error' = IF ~isArray(given) THEN LayersNotArray ELSE error
    /\ held' = (isArray(given) /\ Len(layers) = 0)
    /\ UNCHANGED <<given, layers, services, listeners, regs, cbLog, bindLog,
                   invoked, apiLog>>
    /\ UNCHANGED ipcVars
    /\ UNCHANGED <<hostVars, ifVars, svcVars, busVars>>

\* names.map( name => load( name, layer[name], app ) ), one name at a time
LoadNext ==
    /\ pc = "load"
    /\ k < Len(names)
    /\ LET name == names[k + 1]
           def == layer[k + 1][2]
           p == load(name, def, services)
       IN /\ pending' = Append(pending, p)
          /\ all' = AllAfter(all, p)
          /\ invoked' = IF p.ran
                        THEN Append(invoked, [name |-> name, def |-> def,
                                              args |-> p.args, this |-> "app"])
                        ELSE invoked
          /\ held' = (held \/ p.ran)
    /\ k' = k + 1
    /\ pc' = IF k + 1 = Len(names) THEN "await" ELSE "load"
    /\ UNCHANGED <<given, layers, idx, error, services, listeners, regs, cbLog, bindLog, apiLog>>
    /\ UNCHANGED ipcVars
    /\ UNCHANGED <<hostVars, ifVars, svcVars, busVars>>

\* the result of a factory that was called settles
FactorySettles ==
    /\ pc \in {"await", "failed"}
    /\ \E j \in DOMAIN pending :
          /\ pending[j].state = "running"
          /\ pending' = [pending EXCEPT ![j] = Settled(names[j], pending[j])]
          /\ all' = AllAfter(all, pending'[j])
    /\ UNCHANGED <<given, layers, pc, idx, k, error, services, listeners, regs, cbLog,
                   bindLog, invoked, held, apiLog>>
    /\ UNCHANGED ipcVars
    /\ UNCHANGED <<hostVars, ifVars, svcVars, busVars>>

\* a variant of Awaited that waits for every promise to settle and then goes
\* on, as Promise.allSettled does
AwaitedAllSettled(allp, pnd) ==
    IF \A j \in DOMAIN pnd : pnd[j].state \in {"fulfilled", "rejected"}
    THEN "fulfilled" ELSE "pending"

\* what await Promise.all( pending ) does: it throws once a promise is
\* rejected, goes on once all are fulfilled, and waits otherwise
Awaited(allp, pnd) ==
    IF allp.state = "rejected" THEN "rejected"
    ELSE IF \A j \in DOMAIN pnd : pnd[j].state = "fulfilled" THEN "fulfilled"
    ELSE "pending"

\* await Promise.all( pending )
AwaitAll ==
    /\ pc = "await"
    /\ \/ /\ Awaited(all, pending) = "rejected"
          /\ pc' = "failed"
          /\ error' = all.value
          /\ k' = k
       \/ /\ Awaited(all, pending) = "fulfilled"
          /\ pc' = IF Len(names) = 0 THEN "incr" ELSE "bind"
          /\ error' = error
          /\ k' = 0
    /\ UNCHANGED <<given, layers, idx, pending, all, services, listeners, regs, cbLog,
                   bindLog, invoked, held, apiLog>>
    /\ UNCHANGED ipcVars
    /\ UNCHANGED <<hostVars, ifVars, svcVars, busVars>>

\* services.forEach( ... app.bind( name, service ) ), one service at a time
BindNext ==
    /\ pc = "bind"
    /\ k < Len(names)
    /\ LET b == bind(names[k + 1], pending[k + 1].value,
                     services, listeners, regs, cbLog, bindLog, subs)
       IN /\ services' = b.services
          /\ listeners' = b.listeners
          /\ regs' = b.regs
          /\ cbLog' = b.cbLog
          /\ bindLog' = b.bindLog
          /\ subs' = b.subs
          /\ pc' = IF b.threw THEN "failed"
                   ELSE IF k + 1 = Len(names) THEN "incr" ELSE "bind"
          /\ error' = IF b.threw THEN b.error ELSE error
    /\ k' = k + 1
    /\ UNCHANGED <<given, layers, idx, pending, all, invoked, held, apiLog>>
    /\ UNCHANGED ipcVars
    /\ UNCHANGED <<hostVars, ifVars, svcVars, subLog>>

\* the update expression of the loop, i++: nothing declares i
LoopIncrement ==
    /\ pc = "incr"
    /\ pc' = "failed"
    /\ error' = ReferenceError(<<"i">>)
    /\ UNCHANGED <<given, layers, idx, k, pending, all, services, listeners, regs, cbLog,
                   bindLog, invoked, held, apiLog>>
    /\ UNCHANGED ipcVars
    /\ UNCHANGED <<hostVars, ifVars, svcVars, busVars>>

(***************************************************************************)
(* Calls made by code that holds the backbone: a factory that was called   *)
(* with it as this, or the caller start returned it to.  Such code runs    *)
(* when start does not: inside the factory, or while start awaits.         *)
(***************************************************************************)
CallerRuns ==
    /\ held
    /\ \/ pc \in {"await", "done", "failed"}
       \/ pc = "load" /\ k > 0 /\ pending[k].ran

\* app.bind( name, service ) for one of the given pairs of a name and a value
BindOneOf(calls) ==
    /\ CallerRuns
    /\ Len(apiLog) < MaxApiBinds
    /\ \E call \in calls :
          LET name == call[1]
              service == call[2]
              b == bind(name, service, services, listeners, regs, cbLog, bindLog, subs)
          IN /\ services' = b.services
             /\ listeners' = b.listeners
             /\ regs' = b.regs
             /\ cbLog' = b.cbLog
             /\ bindLog' = b.bindLog
             /\ subs' = b.subs
             /\ apiLog' = Append(apiLog, [name |-> name, service |-> service,
                                          threw |-> b.threw, error |-> b.error])
    /\ UNCHANGED <<given, layers, pc, idx, k, pending, all, error, invoked, held>>
    /\ UNCHANGED ipcVars
    /\ UNCHANGED <<hostVars, ifVars, svcVars, subLog>>

ApiBind == BindOneOf(ApiBinds)

ApiOnServiceBind ==
    /\ CallerRuns
    /\ Len(regs) < MaxRegs
    /\ \E name \in WaitNames, once \in BOOLEAN :
          LET r == onServiceBind(name, once, services, listeners, regs, cbLog, bindLog)
          IN /\ regs' = r.regs
             /\ cbLog' = r.cbLog
             /\ listeners' = r.listeners
    /\ UNCHANGED <<given, layers, pc, idx, k, pending, all, error, services, bindLog,
                   invoked, held, apiLog>>
    /\ UNCHANGED ipcVars
    /\ UNCHANGED <<hostVars, ifVars, svcVars, busVars>>

ApiOnConformingServiceBind ==
    /\ CallerRuns
    /\ Len(regs) < MaxRegs
    /\ \E ifdef \in ApiIfDefs :
          LET r == onConformingServiceBind(ifdef, services, listeners, regs, cbLog, bindLog)
          IN /\ regs' = r.regs
             /\ cbLog' = r.cbLog
             /\ listeners' = r.listeners
    /\ UNCHANGED <<given, layers, pc, idx, k, pending, all, error, services, bindLog,
                   invoked, held, apiLog>>
    /\ UNCHANGED ipcVars
    /\ UNCHANGED <<hostVars, ifVars, svcVars, busVars>>

Next ==
    \/ StartApp
    \/ LoadNext
    \/ FactorySettles
    \/ AwaitAll
    \/ BindNext
    \/ LoopIncrement
    \/ ApiBind
    \/ ApiOnServiceBind
    \/ ApiOnConformingServiceBind

Spec == Init /\ [][Next]_vars

(***************************************************************************)
(* Subscriptions through the backbone (App.on, App.once) by code that      *)
(* holds a backbone started with no layers, and the binds that make the    *)
(* deferred ones happen.                                                   *)
(***************************************************************************)
\* an instance of EventEmitter, and an object with on and once of its own
Emitter(id) == [type |-> "object", id |-> id,
                props |-> [on |-> Method, once |-> Method], proto |-> "EventEmitter"]
Duck == Obj("duck", [on |-> Method, once |-> Method])

BusBinds == {<<<<"db">>, v>> : v \in {Emitter("db1"), Emitter("db2"), Duck, Plain, Undefined}}

\* event names: plain, with an empty qualifier, qualified once and twice, and
\* qualified by a name every object inherits
BusNames ==
    { <<"ready">>,
      <<":", "ready">>,
      <<"db", ":", "ready">>,
      <<"db", ":", "http", ":", "ready">>,
      <<"toString", ":", "ready">> }

\* App.on( eventName, listener )
on(eventName, listener, st) == _addEventListener(eventName, listener, "on", st)

\* App.once( eventName, listener )
once(eventName, listener, st) == _addEventListener(eventName, listener, "once", st)

\* app.on( eventName, listener ) or app.once( eventName, listener ) with a
\* listener not used before
ApiOn ==
    /\ CallerRuns
    /\ Len(subLog) < MaxSubs
    /\ \E eventName \in BusNames, method \in {"on", "once"} :
          LET listener == Len(subLog) + 1
              before == Fields(services, listeners, regs, cbLog, bindLog, subs)
              st == IF method = "on" THEN on(eventName, listener, before)
                    ELSE once(eventName, listener, before)
          IN /\ listeners' = st.listeners
             /\ regs' = st.regs
             /\ cbLog' = st.cbLog
             /\ subs' = st.subs
             /\ subLog' = Append(subLog, [eventName |-> eventName, listener |-> listener,
                                          method |-> method, at |-> Len(bindLog),
                                          threw |-> st.threw, error |-> st.error])
    /\ UNCHANGED <<given, layers, pc, idx, k, pending, all, error, services, bindLog,
                   invoked, held, apiLog>>
    /\ UNCHANGED ipcVars
    /\ UNCHANGED <<hostVars, ifVars, svcVars>>

BusBind == BindOneOf(BusBinds)

InitBus ==
    /\ Init
    /\ given = "array"
    /\ layers = <<>>

NextBus ==
    \/ StartApp
    \/ BusBind
    \/ ApiOn

SpecBus == InitBus /\ [][NextBus]_vars

(***************************************************************************)
(* The IPC client (Client.connect): message calls, their pending entries,  *)
(* timers and promises.  The state is the one the callback of connectTo    *)
(* leaves: midx = 0, no pending entry, the message methods bound.          *)
(***************************************************************************)
MessageNames == {"getMessage", "sendPing"}
Results == {Tag("Test message")}
ErrorTexts == {Tag("handler failed")}
TimeoutText == Tag("IPC message dispatch timeout")

\* a variant of CallId that leaves the counter out
CallIdOfName(name, n) == <<name, 0>>

\* `${name}.${midx}`
CallId(name, n) == <<name, n>>
\* a call id no call of the model is given, and an id that is the name of a
\* member every plain object {} inherits
UnknownId == CallId("getMessage", MaxCalls)
InheritedId == <<"toString">>
UnknownIds == {UnknownId, InheritedId}

\* delete map[key]
Delete(map, key) == [x \in (DOMAIN map) \ {key} |-> map[x]]

\* a variant of Settle in which a later settlement replaces an earlier one
SettleAgain(p, state, value) ==
    [state |-> state, value |-> value]

\* the resolve and reject functions of a promise: the first call settles it,
\* later calls do nothing
Settle(p, state, value) ==
    IF p.state = "pending" THEN [state |-> state, value |-> value] ELSE p

\* a variant of clear that leaves the timer running
clearEntryOnly(id, pnd, tm) ==
    IF id \notin DOMAIN pnd
    THEN [found |-> FALSE, callable |-> id \notin ObjectPrototype,
          pendings |-> pnd, timer |-> tm]
    ELSE [found |-> TRUE, callable |-> TRUE, pendings |-> Delete(pnd, id), timer |-> tm]

\* clear( id ): the entry removed and its timer cleared, or nothing when there
\* is no entry (the stub is returned).  pendings is a plain object {}: for an
\* id that names an inherited member pendings[id] is that member, so no stub
\* is returned; delete and clearTimeout( undefined ) change nothing, and what
\* is returned has no resolve and no reject to call.
clear(id, pnd, tm) ==
    IF id \in DOMAIN pnd
    THEN [found |-> TRUE, callable |-> TRUE,
          pendings |-> Delete(pnd, id),
          timer |-> [tm EXCEPT ![pnd[id].timerID] =
                        IF @ = "armed" THEN "cleared" ELSE @]]
    ELSE IF Get(pnd, id) # Undefined
    THEN [found |-> FALSE, callable |-> FALSE, pendings |-> pnd, timer |-> tm]
    ELSE [found |-> FALSE, callable |-> TRUE, pendings |-> pnd, timer |-> tm]

\* a variant of resolve that completes the call as a failure
resolveAsFailure(data, pnd, tm, prom) ==
    LET c == clear(data.id, pnd, tm)
    IN [pendings |-> c.pendings, timer |-> c.timer,
        promise |-> IF c.found
                    THEN [prom EXCEPT ![data.id] = Settle(@, "rejected", data.message)]
                    ELSE prom,
        threw |-> ~c.callable]

\* resolve( data ), the listener of message.<name>
resolve(data, pnd, tm, prom) ==
    LET c == clear(data.id, pnd, tm)
    IN [pendings |-> c.pendings, timer |-> c.timer,
        promise |-> IF c.found
                    THEN [prom EXCEPT ![data.id] = Settle(@, "resolved", data.message)]
                    ELSE prom,
        threw |-> ~c.callable]

\* reject( data ), the listener of error.<name>
reject(data, pnd, tm, prom) ==
    LET c == clear(data.id, pnd, tm)
    IN [pendings |-> c.pendings, timer |-> c.timer,
        promise |-> IF c.found
                    THEN [prom EXCEPT ![data.id] = Settle(@, "rejected", data.message)]
                    ELSE prom,
        threw |-> ~c.callable]

\* a variant of onTimeout that rejects nothing
onTimeoutSilent(id, pnd, tm, prom) ==
    [pendings |-> pnd, timer |-> [tm EXCEPT ![id] = "fired"], promise |-> prom]

\* the callback of setTimeout: reject here is the promise's own reject, the
\* parameter of the executor, and not the function reject( data ) above
onTimeout(id, pnd, tm, prom) ==
    [pendings |-> pnd,
     timer |-> [tm EXCEPT ![id] = "fired"],
     promise |-> [prom EXCEPT ![id] =
                     Settle(@, "rejected",
                            [type |-> "object", id |-> id, message |-> TimeoutText])]]

\* attempts: how many payloads arrived, per call id the paths (response,
\* error, timeout) that have run for it, the ids whose listener threw, and the
\* id of the latest arrival or expiry
Attempt(kind, id) ==
    [n |-> attempts.n + (IF kind = "timeout" THEN 0 ELSE 1),
     by |-> Put(attempts.by, id,
                (IF id \in DOMAIN attempts.by THEN attempts.by[id] ELSE {}) \cup {kind}),
     threw |-> attempts.threw,
     last |-> id]

\* the listener of a topic threw TypeError: resolve (reject) is not a function
Thrown(att, id, threw) ==
    IF threw THEN [att EXCEPT !.threw = @ \cup {id}] ELSE att

InitIPC ==
    /\ Init
    /\ given = "array"
    /\ layers = <<>>

\* server.on('connect', () => self._connected = true )
onConnect(pnd, tm, prom) ==
    [connected |-> TRUE, pendings |-> pnd, timer |-> tm, promise |-> prom]

\* a variant of onDisconnect that fails every pending call
onDisconnectRejecting(pnd, tm, prom) ==
    [connected |-> FALSE,
     pendings |-> <<>>,
     timer |-> [id \in DOMAIN tm |-> IF id \in DOMAIN pnd THEN "cleared" ELSE tm[id]],
     promise |-> [id \in DOMAIN prom |->
                     IF id \in DOMAIN pnd
                     THEN Settle(prom[id], "rejected", Tag("disconnected"))
                     ELSE prom[id]]]

\* server.on('disconnect', () => self._connected = false )
onDisconnect(pnd, tm, prom) ==
    [connected |-> FALSE, pendings |-> pnd, timer |-> tm, promise |-> prom]

\* the channel's 'connect' event
Connect ==
    /\ ~connected
    /\ Len(links) < MaxLinks
    /\ LET r == onConnect(pendings, timer, promise)
       IN /\ connected' = r.connected
          /\ pendings' = r.pendings
          /\ timer' = r.timer
          /\ promise' = r.promise
    /\ links' = Append(links, [event |-> "connect", pending |-> DOMAIN pendings])
    /\ UNCHANGED <<midx, sent, attempts>>
    /\ UNCHANGED appVars
    /\ UNCHANGED <<hostVars, ifVars, svcVars, busVars>>

\* the channel's 'disconnect' event
Disconnect ==
    /\ connected
    /\ Len(links) < MaxLinks
    /\ LET r == onDisconnect(pendings, timer, promise)
       IN /\ connected' = r.connected
          /\ pendings' = r.pendings
          /\ timer' = r.timer
          /\ promise' = r.promise
    /\ links' = Append(links, [event |-> "disconnect", pending |-> DOMAIN pendings])
    /\ UNCHANGED <<midx, sent, attempts>>
    /\ UNCHANGED appVars
    /\ UNCHANGED <<hostVars, ifVars, svcVars, busVars>>

\* self[name]( ...args ): a message call
Call ==
    /\ midx < MaxCalls
    /\ \E name \in MessageNames :
          LET id == CallId(name, midx)
          IN /\ sent' = Append(sent, [topic |-> <<"message", name>>, id |-> id])
             /\ timer' = Put(timer, id, "armed")
             /\ promise' = Put(promise, id, [state |-> "pending"])
             /\ pendings' = Put(pendings, id, [timerID |-> id])
    /\ midx' = midx + 1
    /\ UNCHANGED <<connected, attempts, links>>
    /\ UNCHANGED appVars
    /\ UNCHANGED <<hostVars, ifVars, svcVars, busVars>>

\* a payload { id, message } arrives on a topic message.<name>
ResponseArrives ==
    /\ attempts.n < MaxArrivals
    /\ \E id \in (DOMAIN promise) \cup UnknownIds, message \in Results :
          LET r == resolve([id |-> id, message |-> message], pendings, timer, promise)
          IN /\ pendings' = r.pendings
             /\ timer' = r.timer
             /\ promise' = r.promise
             /\ attempts' = Thrown(Attempt("response", id), id, r.threw)
    /\ UNCHANGED <<midx, connected, sent, links>>
    /\ UNCHANGED appVars
    /\ UNCHANGED <<hostVars, ifVars, svcVars, busVars>>

\* a payload { id, message } arrives on a topic error.<name>
ErrorArrives ==
    /\ attempts.n < MaxArrivals
    /\ \E id \in (DOMAIN promise) \cup UnknownIds, message \in ErrorTexts :
          LET r == reject([id |-> id, message |-> message], pendings, timer, promise)
          IN /\ pendings' = r.pendings
             /\ timer' = r.timer
             /\ promise' = r.promise
             /\ attempts' = Thrown(Attempt("error", id), id, r.threw)
    /\ UNCHANGED <<midx, connected, sent, links>>
    /\ UNCHANGED appVars
    /\ UNCHANGED <<hostVars, ifVars, svcVars, busVars>>

\* the timeout timer of the call with this id fires
TimerFires(id) ==
    /\ id \in DOMAIN timer
    /\ timer[id] = "armed"
    /\ LET r == onTimeout(id, pendings, timer, promise)
       IN /\ pendings' = r.pendings
          /\ timer' = r.timer
          /\ promise' = r.promise
    /\ attempts' = Attempt("timeout", id)
    /\ UNCHANGED <<midx, connected, sent, links>>
    /\ UNCHANGED appVars
    /\ UNCHANGED <<hostVars, ifVars, svcVars, busVars>>

\* every call id the client can issue
CallIds == {CallId(name, n) : name \in MessageNames, n \in 0..(MaxCalls - 1)}

\* the timeout timer of a call fires
TimeoutFires == \E id \in CallIds : TimerFires(id)

NextIPC ==
    \/ Connect
    \/ Disconnect
    \/ Call
    \/ ResponseArrives
    \/ ErrorArrives
    \/ TimeoutFires

SpecIPC == InitIPC /\ [][NextIPC]_vars

\* setTimeout: a timer that is armed and not cleared fires in the end
TimersFire == \A id \in CallIds : WF_vars(TimerFires(id))

SpecIPCLive == InitIPC /\ [][NextIPC]_vars /\ TimersFire

(***************************************************************************)
(* The IPC server (class Server) and the client's side of its traffic.     *)
(* What the server emits is kept in order in replies, each item with the   *)
(* peers it is addressed to; the client's socket delivers them in order.   *)
(***************************************************************************)
ServerId == "db"
Peers == {"client", "other"}

\* the event names set on the server and on the client, and the names emitted
HostEvents == {"ping", "tick"}
ClientEvents == {"ping", "stray"}
EventNames == {"ping", "tick", "stray"}
Payloads == {Tag("up"), Num(1)}

\* the call ids the other peer uses
ForeignIds == {CallId("getMessage", 0)}

\* what a handler throws or rejects with: an Error, an error with a
\* description, a text, nothing, null
Failures ==
    { Obj("Error", [message |-> Tag("handler failed")]),
      Obj("Error", [description |-> Tag("no such record"), message |-> Tag("handler failed")]),
      Tag("boom"),
      Undefined,
      Null }

\* what a handler does when called
HandlerOutcomes == {Return(v) : v \in Results} \cup {Throw(f) : f \in Failures}

\* whether a value counts as true in a || chain
Truthy(value) ==
    /\ value.type \notin {"undefined", "null"}
    /\ value.type = "string" => value.tag # ""

\* err.description || err.message || err.toString()
errorMessage(err) ==
    IF err.type \in {"undefined", "null"}
    THEN Throw(TypeErrorOf("Cannot read properties of " \o err.type))
    ELSE LET description == Prop(err, "description")
             message == Prop(err, "message")
         IN Return(IF Truthy(description) THEN description
                   ELSE IF Truthy(message) THEN message
                   ELSE IF err.type = "string" THEN err
                   ELSE Tag("[object Object]"))

\* an item emitted by the server: the peers it goes to, its topic, its payload,
\* and the request it answers if any (its index in handled, 0 for none)
Emission(to, topic, data, re) == [to |-> to, topic |-> topic, data |-> data, re |-> re]

\* the listener of message.<name> on the server: the handler is called and
\* awaited, then its result or its error is emitted to the socket
onMessage(name, data, socket, outcome, re) ==
    IF ~outcome.threw
    THEN <<Emission({socket}, <<"message", name>>,
                    [id |-> data.id, message |-> outcome.value], re)>>
    ELSE LET message == errorMessage(outcome.value)
         IN IF message.threw THEN <<>>
            ELSE <<Emission({socket}, <<"error", name>>,
                            [id |-> data.id, message |-> message.value], re)>>

\* the requests of a peer the server has received so far
ReceivedFrom(peer) ==
    Cardinality({j \in DOMAIN handled : handled[j].peer = peer})
    + Cardinality({j \in DOMAIN inflight : inflight[j].peer = peer})
ReceivedFromClient == ReceivedFrom("client")
ReceivedFromOther == ReceivedFrom("other")

\* the listener of message.<name> is an async function nothing awaits: when its
\* catch block throws, the promise it returned is rejected and unhandled.  The
\* runtime then warns and goes on, or raises an uncaught exception that ends
\* the process (the default of Node.js from version 15 on).
afterListener(outcome) ==
    IF outcome.threw /\ errorMessage(outcome.value).threw
    THEN {"remote", "crashed"}
    ELSE {"remote"}

\* the method names a service sets
MethodNames == {"describe"}

\* for( let name in functions ) { this[name] = functions[name]; }
Assign(own, fnNames, origin) ==
    [n \in (DOMAIN own) \cup fnNames |-> IF n \in fnNames THEN origin ELSE own[n]]

\* set methods( methods )
setMethods(own) == Assign(own, MethodNames, "method")

\* a variant of start that serves in every mode
startServing(m, own, ch) ==
    [members |-> Assign(own, MessageNames, "message"),
     channel |-> [serve |-> ch.serve + 1, start |-> ch.start + 1,
                  listeners |-> ch.listeners \cup {<<"message", n>> : n \in MessageNames}]]

\* Server.start( mode ) for a legal mode: what it does to the server object and
\* to the channel
start(m, own, ch) ==
    IF m = "local"
    THEN [members |-> Assign(own, MessageNames, "message"), channel |-> ch]
    ELSE [members |-> Assign(own, MessageNames, "message"),
          channel |-> [serve |-> ch.serve + 1, start |-> ch.start + 1,
                       listeners |-> ch.listeners \cup
                                     {<<"message", n>> : n \in MessageNames}]]

\* Server.start( mode )
HostStart ==
    /\ mode = "stopped"
    /\ mode' \in {"local", "remote"}
    /\ members' = start(mode', members, channel).members
    /\ channel' = start(mode', members, channel).channel
    /\ UNCHANGED <<inflight, handled, raised, replies, ridx, emitted, directLog>>
    /\ UNCHANGED <<appVars, ipcVars, ifVars, svcVars, busVars>>

\* a request arrives at the started server, from the client (its next request)
\* or from the other peer
HostReceives ==
    /\ mode = "remote"
    /\ \E peer \in Peers, outcome \in HandlerOutcomes :
          /\ peer = "client" => connected /\ ReceivedFromClient < Len(sent)
          /\ peer = "other" => ReceivedFromOther < MaxForeign
          /\ \E id \in IF peer = "client"
                       THEN {sent[ReceivedFromClient + 1].id}
                       ELSE ForeignIds :
                LET name == id[1]
                    re == Len(handled) + 1
                IN /\ handled' = Append(handled, [peer |-> peer, name |-> name, id |-> id,
                                                  outcome |-> outcome])
                   /\ replies' = replies \o onMessage(name, [id |-> id], peer, outcome, re)
                   /\ mode' \in afterListener(outcome)
    /\ UNCHANGED <<inflight, raised, ridx, emitted, channel, members, directLog>>
    /\ UNCHANGED <<appVars, ipcVars, ifVars, svcVars, busVars>>

\* the listeners Server.start registers on the server object in remote mode:
\* what a local emission of the event name with the payload broadcasts
onLocalEvent(eid, message, started, peers) ==
    IF started = "remote" /\ eid \in HostEvents
    THEN <<Emission(peers, <<"event", eid>>, [id |-> ServerId, message |-> message], 0)>>
    ELSE <<>>

\* a variant of onEvent that passes the whole of what it received on
onEventWithSource(eid, data) ==
    IF eid \in ClientEvents THEN <<[name |-> eid, payload |-> data]>> ELSE <<>>

\* the listener of event.<eid> on the client: what it emits locally
onEvent(eid, data) ==
    IF eid \in ClientEvents THEN <<[name |-> eid, payload |-> data.message]>> ELSE <<>>

\* the peers connected to the server
ConnectedPeers == {"other"} \cup (IF connected THEN {"client"} ELSE {})

\* self.emit( eid, message ) on the server object
HostEmits ==
    /\ Len(raised) < MaxRaised
    /\ \E eid \in EventNames, message \in Payloads :
          /\ raised' = Append(raised, [name |-> eid, payload |-> message, mode |-> mode,
                                       peers |-> ConnectedPeers])
          /\ replies' = replies \o onLocalEvent(eid, message, mode, ConnectedPeers)
    /\ UNCHANGED <<mode, inflight, handled, ridx, emitted, channel, members, directLog>>
    /\ UNCHANGED <<appVars, ipcVars, ifVars, svcVars, busVars>>

\* the next item the client's socket has to deliver, 0 when there is none
NextForClient ==
    LET waiting == {i \in (ridx + 1)..Len(replies) : "client" \in replies[i].to}
    IN IF waiting = {} THEN 0
       ELSE CHOOSE i \in waiting : \A other \in waiting : i <= other

\* the client's socket delivers the next item addressed to it to the listener
\* of its topic
Deliver ==
    /\ NextForClient # 0
    /\ LET item == replies[NextForClient]
           kind == item.topic[1]
       IN /\ ridx' = NextForClient
          /\ IF kind = "message"
             THEN LET r == resolve(item.data, pendings, timer, promise)
                  IN /\ pendings' = r.pendings
                     /\ timer' = r.timer
                     /\ promise' = r.promise
                     /\ attempts' = Thrown(Attempt("response", item.data.id),
                                            item.data.id, r.threw)
                     /\ emitted' = emitted
             ELSE IF kind = "error"
             THEN LET r == reject(item.data, pendings, timer, promise)
                  IN /\ pendings' = r.pendings
                     /\ timer' = r.timer
                     /\ promise' = r.promise
                     /\ attempts' = Thrown(Attempt("error", item.data.id),
                                            item.data.id, r.threw)
                     /\ emitted' = emitted
             ELSE /\ emitted' = emitted \o onEvent(item.topic[2], item.data)
                  /\ UNCHANGED <<pendings, timer, promise, attempts>>
    /\ UNCHANGED <<midx, connected, sent, links>>
    /\ UNCHANGED <<mode, inflight, handled, raised, replies, channel, members, directLog>>
    /\ UNCHANGED <<appVars, ifVars, svcVars, busVars>>

\* message calls between the client and the server
NextHost ==
    \/ Connect
    \/ HostStart
    \/ Call
    \/ HostReceives
    \/ Deliver
    \/ TimeoutFires

SpecHost == InitIPC /\ [][NextHost]_vars

\* events of the server and their way to the client
NextEvents ==
    \/ Connect
    \/ Disconnect
    \/ HostStart
    \/ HostEmits
    \/ Deliver

SpecEvents == InitIPC /\ [][NextEvents]_vars

(***************************************************************************)
(* The server with several handlers running: a request arrives and its     *)
(* handler is called; the handler settles later, in any order.             *)
(***************************************************************************)
\* a request arrives and the listener calls the handler, which does not settle
\* at once
HostAccepts ==
    /\ mode = "remote"
    /\ \E peer \in Peers :
          /\ peer = "client" => connected /\ ReceivedFromClient < Len(sent)
          /\ peer = "other" => ReceivedFromOther < MaxForeign
          /\ \E id \in IF peer = "client"
                       THEN {sent[ReceivedFromClient + 1].id}
                       ELSE ForeignIds :
                inflight' = Append(inflight, [peer |-> peer, name |-> id[1], id |-> id])
    /\ UNCHANGED <<mode, handled, raised, replies, ridx, emitted, channel, members,
                   directLog>>
    /\ UNCHANGED <<appVars, ipcVars, ifVars, svcVars, busVars>>

\* sequence without its n-th item
Drop(seq, n) == SubSeq(seq, 1, n - 1) \o SubSeq(seq, n + 1, Len(seq))

\* the handler of a request in flight settles: the listener goes on after its
\* await and emits the result or the error
HostSettles ==
    /\ mode = "remote"
    /\ \E n \in DOMAIN inflight, outcome \in HandlerOutcomes :
          LET req == inflight[n]
              re == Len(handled) + 1
          IN /\ inflight' = Drop(inflight, n)
             /\ handled' = Append(handled, [peer |-> req.peer, name |-> req.name,
                                            id |-> req.id, outcome |-> outcome])
             /\ replies' = replies \o onMessage(req.name, [id |-> req.id], req.peer,
                                                outcome, re)
             /\ mode' \in afterListener(outcome)
    /\ UNCHANGED <<raised, ridx, emitted, channel, members, directLog>>
    /\ UNCHANGED <<appVars, ipcVars, ifVars, svcVars, busVars>>

NextServe ==
    \/ Connect
    \/ Call
    \/ HostStart
    \/ HostAccepts
    \/ HostSettles

SpecServe == InitIPC /\ [][NextServe]_vars

(***************************************************************************)
(* The server object on its own: its methods are set, it is started, and   *)
(* its functions are called on it.                                         *)
(***************************************************************************)
\* service.methods = { ... }
HostSetMethods ==
    /\ \A n \in MethodNames : n \notin DOMAIN members
    /\ members' = setMethods(members)
    /\ UNCHANGED <<mode, inflight, handled, raised, replies, ridx, emitted, channel, directLog>>
    /\ UNCHANGED <<appVars, ipcVars, ifVars, svcVars, busVars>>

\* service[name]( ...args ) for a function the server object has: the handler
\* or the method itself runs
HostCallDirect ==
    /\ Len(directLog) < MaxDirect
    /\ \E name \in DOMAIN members, outcome \in HandlerOutcomes :
          directLog' = Append(directLog, [name |-> name, origin |-> members[name],
                                          mode |-> mode, outcome |-> outcome])
    /\ UNCHANGED <<mode, inflight, handled, raised, replies, ridx, emitted, channel, members>>
    /\ UNCHANGED <<appVars, ipcVars, ifVars, svcVars, busVars>>

NextLocal ==
    \/ HostSetMethods
    \/ HostStart
    \/ HostCallDirect

SpecLocal == InitIPC /\ [][NextLocal]_vars

(***************************************************************************)
(* InterfaceDef on its own: a descriptor is compiled and the predicate is  *)
(* applied to a candidate value.                                           *)
(***************************************************************************)
Bool(b) == [type |-> "boolean", b |-> b]
EmptyArray == IfList(<<>>)

\* the candidate values
Timer == Obj("timer", [getTime |-> Method, setTime |-> Method])
Clock == Obj("clock", [getTime |-> Method])
Holder == Obj("holder", [conf |-> Obj("conf", [name |-> Tag("main")]),
                         name |-> Tag("holder"), n |-> Num(1),
                         flag |-> Bool(TRUE), list |-> EmptyArray])
NullConf == Obj("nullconf", [conf |-> Null])
TextConf == Obj("textconf", [conf |-> Tag("text")])
ListConf == Obj("listconf", [conf |-> EmptyArray])
Candidates ==
    {Timer, Clock, Holder, NullConf, TextConf, ListConf, Tag("text"), Undefined, Null}

\* the descriptors: lists of names, mappings of names to type names or to
\* nested descriptors, a mapping with a type name Tests does not have and one
\* with a name Tests inherits, values that are neither a list nor a mapping,
\* and mappings with such a value or with a bad type name in a nested place
Descriptors ==
    { IfList(<<>>),
      IfList(<<"getTime">>),
      IfList(<<"getTime", "setTime">>),
      IfList(<<"conf">>),
      IfList(<<"conf", "conf">>),
      IfMap(<< <<"getTime", Tag("function")>>, <<"setTime", Tag("function")>> >>),
      IfMap(<< <<"conf", Tag("object")>> >>),
      IfMap(<< <<"name", Tag("string")>>, <<"n", Tag("number")>>,
               <<"flag", Tag("boolean")>>, <<"list", Tag("array")>> >>),
      IfMap(<< <<"conf", IfMap(<< <<"name", Tag("string")>> >>)>> >>),
      IfMap(<< <<"conf", IfList(<<"name">>)>> >>),
      IfMap(<< <<"getTime", Tag("method")>> >>),
      IfMap(<< <<"getTime", Tag("toString")>> >>),
      Tag("getTime"), Num(1), Bool(TRUE), Null,
      IfMap(<< <<"conf", Num(1)>> >>),
      IfMap(<< <<"conf", Null>> >>),
      IfMap(<< <<"conf", IfMap(<< <<"name", Tag("text")>> >>)>> >>) }

\* compile( ifdef )( obj ): what the call returns or throws
Verdict(ifdef, obj) ==
    LET fn == compile(ifdef)
    IN IF fn.threw THEN [threw |-> TRUE, value |-> fn.value, applied |-> TRUE]
       ELSE LET ok == iftest(fn.value, obj)
            IN IF ok.threw THEN [threw |-> TRUE, value |-> ok.value, applied |-> TRUE]
               ELSE [threw |-> FALSE, value |-> Bool(ok.value), applied |-> TRUE]

InitIfDef ==
    /\ InitBackbone
    /\ given = "array"
    /\ layers = <<>>
    /\ InitHost
    /\ InitService
    /\ descriptor \in Descriptors
    /\ candidate \in Candidates
    /\ verdict = NotApplied
    /\ predicate = NotCompiled

\* const iftest = InterfaceDef.compile( ifdef ); iftest( obj )
ApplyPredicate ==
    /\ ~verdict.applied
    /\ verdict' = Verdict(descriptor, candidate)
    /\ UNCHANGED <<descriptor, candidate, predicate>>
    /\ UNCHANGED <<appVars, ipcVars, hostVars, busVars, svcVars>>

\* const iftest = InterfaceDef.compile( ifdef ), and compile again on what it
\* returned, as listConformingServices( iftest ) does
Compile ==
    /\ predicate.times < MaxCompiles
    /\ ~predicate.threw
    /\ ~verdict.applied
    /\ LET fn == compile(IF predicate.times = 0 THEN descriptor ELSE predicate.value)
       IN predicate' = [threw |-> fn.threw, value |-> fn.value,
                        times |-> predicate.times + 1]
    /\ UNCHANGED <<descriptor, candidate, verdict>>
    /\ UNCHANGED <<appVars, ipcVars, hostVars, busVars, svcVars>>

\* iftest( obj ) on the predicate the caller keeps
CallPredicate ==
    /\ predicate.times > 0
    /\ ~predicate.threw
    /\ ~verdict.applied
    /\ LET ok == iftest(predicate.value, candidate)
       IN verdict' = IF ok.threw
                     THEN [threw |-> TRUE, value |-> ok.value, applied |-> TRUE]
                     ELSE [threw |-> FALSE, value |-> Bool(ok.value), applied |-> TRUE]
    /\ UNCHANGED <<descriptor, candidate, predicate>>
    /\ UNCHANGED <<appVars, ipcVars, hostVars, busVars, svcVars>>

NextIfDef ==
    \/ ApplyPredicate
    \/ Compile
    \/ CallPredicate

SpecIfDef == InitIfDef /\ [][NextIfDef]_vars

(***************************************************************************)
(* IPCService: the make functions its client, server and service getters   *)
(* return, and the instances these construct.                              *)
(***************************************************************************)
MaxGets == 2
MaxMakes == 3

\* the three getters, named by the field each make function keeps its
\* instance in: _client, _server, _service
Modes == {"client", "server", "service"}

\* this._initClient, this._initServer as the constructor sets them: () => {}
InitFunction == [type |-> "function", params |-> <<>>]

\* the declared parameter names of a function, as an app module that exports
\* readArgNames reads them
ExportedArgNames(fn) == Return(fn.params)

\* readArgNames( '_initClient', this._initClient ) in a getter: readArgNames
\* is what require('../app') gave under this name.  The app modules of the
\* sources export start only, so that the name is undefined and the call
\* throws; with an app module that exports the function the call returns.
ImportedArgNames(link, fn) ==
    IF link = "absent"
    THEN Throw(TypeErrorOf(<<"readArgNames is not a function">>))
    ELSE ExportedArgNames(fn)

\* the module of IPCService is loaded: its require('../app') is evaluated
Require ==
    /\ linked = "unloaded"
    /\ linked' \in {"absent", "exported"}
    /\ UNCHANGED <<gets, slots, made, makes>>
    /\ UNCHANGED <<appVars, ipcVars, hostVars, ifVars, busVars>>

\* service.client, service.server or service.service is read: the getter
\* returns a make function, or throws
GetMake ==
    /\ linked # "unloaded"
    /\ Len(gets) < MaxGets
    /\ \E m \in Modes :
          LET r == ImportedArgNames(linked, InitFunction)
          IN gets' = Append(gets, [mode |-> m, threw |-> r.threw, value |-> r.value])
    /\ UNCHANGED <<linked, slots, made, makes>>
    /\ UNCHANGED <<appVars, ipcVars, hostVars, ifVars, busVars>>

\* the invocations of the make functions of a getter that have not returned
Running(m) == {c \in DOMAIN makes : makes[c].mode = m /\ makes[c].pc # "done"}

\* a make function a getter returned is invoked and runs up to its first
\* await: with the field set it returns the field; otherwise it constructs a
\* Client (a Server, in _makeServer) and calls the init function
MakeCalled ==
    /\ Len(makes) < MaxMakes
    /\ \E g \in DOMAIN gets :
          /\ ~gets[g].threw
          /\ LET m == gets[g].mode
             IN IF slots[m] # 0
                THEN /\ makes' = Append(makes, [mode |-> m, pc |-> "done", own |-> 0,
                                                result |-> slots[m],
                                                alone |-> Running(m) = {}])
                     /\ made' = made
                ELSE /\ makes' = Append(makes, [mode |-> m, pc |-> "init",
                                                own |-> Len(made) + 1, result |-> 0,
                                                alone |-> Running(m) = {}])
                     /\ made' = Append(made, [mode |-> m, up |-> FALSE])
    /\ UNCHANGED <<linked, gets, slots>>
    /\ UNCHANGED <<appVars, ipcVars, hostVars, ifVars, busVars>>

\* the await of the init function resumes.  The client make function connects
\* the client, stores it in self._client and returns self._client;
\* _makeServer starts the server and returns it to the await of its caller.
InitSettles ==
    /\ \E c \in DOMAIN makes :
          /\ makes[c].pc = "init"
          /\ made' = [made EXCEPT ![makes[c].own].up = TRUE]
          /\ IF makes[c].mode = "client"
             THEN /\ slots' = [slots EXCEPT !["client"] = makes[c].own]
                  /\ makes' = [makes EXCEPT ![c].pc = "done", ![c].result = makes[c].own]
             ELSE /\ slots' = slots
                  /\ makes' = [makes EXCEPT ![c].pc = "assign"]
    /\ UNCHANGED <<linked, gets>>
    /\ UNCHANGED <<appVars, ipcVars, hostVars, ifVars, busVars>>

\* self._server = await self._makeServer( ... ); return self._server (and the
\* same with self._service)
ServerAssigned ==
    /\ \E c \in DOMAIN makes :
          /\ makes[c].pc = "assign"
          /\ slots' = [slots EXCEPT ![makes[c].mode] = makes[c].own]
          /\ makes' = [makes EXCEPT ![c].pc = "done", ![c].result = makes[c].own]
    /\ UNCHANGED <<linked, gets, made>>
    /\ UNCHANGED <<appVars, ipcVars, hostVars, ifVars, busVars>>

NextService ==
    \/ Require
    \/ GetMake
    \/ MakeCalled
    \/ InitSettles
    \/ ServerAssigned

SpecService == InitIPC /\ [][NextService]_vars

(***************************************************************************)
(* The claims.                                                             *)
(***************************************************************************)
\* the names the layers before layer n + 1 declare
RECURSIVE DeclaredBefore(_, _)
DeclaredBefore(ls, n) ==
    IF n = 0 THEN {}
    ELSE DeclaredBefore(ls, n - 1) \cup {ls[n][j][1] : j \in DOMAIN ls[n]}

\* every <<layer, position>> of a layer list
Places(ls) == UNION {{<<n, j>> : j \in DOMAIN ls[n]} : n \in DOMAIN ls}

\* the parameter names a factory declares that no earlier layer declares
MissingOf(ls, n, def) ==
    IF TypeOf(def) = "function"
    THEN {def.params[i] : i \in DOMAIN def.params} \ DeclaredBefore(ls, n - 1)
    ELSE {}

\* service names unique, and every factory's parameters declared in earlier layers
ValidLayers(ls) ==
    /\ \A p, q \in Places(ls) : ls[p[1]][p[2]][1] = ls[q[1]][q[2]][1] => p = q
    /\ \A p \in Places(ls) : MissingOf(ls, p[1], ls[p[1]][p[2]][2]) = {}

\* the number of 'service-bind' events published for a name
BindsOf(name) == Cardinality({j \in DOMAIN bindLog : bindLog[j].name = name})

\* C1 (as claimed): for a layer list with unique names whose factories declare
\* only names of earlier layers, start completes successfully, and at completion
\* every declared name is in the registry and was bound exactly once.
C1_StartBindsEveryNameOnce ==
    (given = "array" /\ ValidLayers(layers) /\ Len(apiLog) = 0) =>
        /\ pc # "failed"
        /\ pc = "done" =>
              \A n \in DeclaredBefore(layers, Len(layers)) :
                  n \in DOMAIN services /\ BindsOf(n) = 1

C3_UnresolvedDependencyNamed ==
    Len(apiLog) = 0 =>
        \A j \in DOMAIN pending :
            LET missing == MissingOf(layers, idx + 1, layer[j][2])
            IN missing # {} =>
                  /\ ~pending[j].ran
                  /\ pending[j].state = "rejected"
                  /\ \E D \in missing :
                        pending[j].value = UnresolvedDependency(D, names[j])

\* C4: of the three paths of a call (response, error, timeout) at most one
\* completes it: once the call's promise is resolved or rejected, no response,
\* error or timeout that comes after changes its outcome.
C4_FirstOutcomeStands ==
    [][ \A id \in DOMAIN promise :
            promise[id].state # "pending" => promise'[id] = promise[id] ]_vars

\* a call that timed out, and for which a response and an error came afterwards
C4_Witness ==
    \E id \in DOMAIN promise :
        /\ promise[id].state = "rejected"
        /\ promise[id].value = [type |-> "object", id |-> id, message |-> TimeoutText]
        /\ attempts.by[id] = {"response", "error", "timeout"}

\* C5 (as claimed): the pending entry of a call is removed by whichever of
\* response, error or timeout completes it: a completed call, and in particular
\* a call whose timer fired, has no entry in pendings.
C5_CompletedCallHasNoPending ==
    \A id \in DOMAIN promise :
        (promise[id].state # "pending" \/ timer[id] = "fired") => id \notin DOMAIN pendings

\* the bind events of a name published after the first n events
LaterBinds(name, n) == {j \in (n + 1)..Len(bindLog) : bindLog[j].name = name}

\* the least element of a non-empty set of numbers
Least(S) == CHOOSE j \in S : \A other \in S : j <= other

\* C6 (as claimed): the callback of onServiceBind(x, cb) with once = true is
\* invoked exactly once in total: at registration when x is bound then, and
\* otherwise at the first later bind of x and at no other.
C6_OnceCallbackInvokedOnce ==
    \A i \in DOMAIN regs :
        (regs[i].kind = "named" /\ regs[i].once) =>
            LET later == LaterBinds(regs[i].name, regs[i].at)
            IN IF regs[i].found THEN Len(cbLog[i]) = 1
               ELSE IF later = {} THEN Len(cbLog[i]) = 0
               ELSE cbLog[i] = <<bindLog[Least(later)]>>

\* C7 (as claimed): the value the callback of onServiceBind receives is the
\* instance bound under the name.
C7_CallbackReceivesInstance ==
    \A i \in DOMAIN regs :
        regs[i].kind = "named" =>
            \A n \in DOMAIN cbLog[i] :
                \E j \in DOMAIN bindLog :
                    /\ bindLog[j].name = regs[i].name
                    /\ cbLog[i][n] = bindLog[j].service

\* whether a value conforms to an interface descriptor
Conforms(ifdef, value) ==
    LET fn == compile(ifdef)
        ok == iftest(fn.value, value)
    IN ~fn.threw /\ ~ok.threw /\ ok.value

\* the instance a name was bound to after the first n bind events
BoundAt(name, n) ==
    bindLog[CHOOSE j \in 1..n :
                /\ bindLog[j].name = name
                /\ \A other \in (j + 1)..n : bindLog[other].name # name].service

\* C8 (as claimed): the callback of onConformingServiceBind is invoked once for
\* each conforming service bound at registration, once more for each conforming
\* service bound afterwards, and never for a service that does not conform.
C8_ConformingCallbackPerService ==
    \A i \in DOMAIN regs :
        regs[i].kind = "conforming" =>
            LET at == regs[i].at
                atRegistration ==
                    {name \in {bindLog[j].name : j \in 1..at} :
                        Conforms(regs[i].ifdef, BoundAt(name, at))}
                afterwards ==
                    {j \in (at + 1)..Len(bindLog) :
                        Conforms(regs[i].ifdef, bindLog[j].service)}
            IN /\ Len(cbLog[i]) = Cardinality(atRegistration) + Cardinality(afterwards)
               /\ \A n \in DOMAIN cbLog[i] : Conforms(regs[i].ifdef, cbLog[i][n].service)

\* C9 (as claimed): the registry is append-only: a bound name stays bound to
\* the same instance whatever start or bind does afterwards.
C9_BoundInstanceNeverChanges ==
    [][ \A name \in DOMAIN services :
            name \in DOMAIN services' /\ services'[name] = services[name] ]_vars

\* C9 (amended): no step removes a name from the registry, and the instance of
\* a name changes only in a step that binds that name to the new instance.
C9_NamesStayAndChangeOnlyByBind ==
    [][ \A name \in DOMAIN services :
            /\ name \in DOMAIN services'
            /\ services'[name] # services[name] =>
                  /\ Len(bindLog') = Len(bindLog) + 1
                  /\ bindLog'[Len(bindLog')] = Event(name, services'[name]) ]_vars

\* a name bound to one instance and then to another, the registry holding the
\* second while another name keeps its entry
C9_Witness ==
    \E i, j \in DOMAIN bindLog :
        /\ i < j
        /\ j = Len(bindLog)
        /\ bindLog[i].name = bindLog[j].name
        /\ bindLog[i].service # bindLog[j].service
        /\ services[bindLog[j].name] = bindLog[j].service
        /\ \E other \in DOMAIN services : other # bindLog[j].name

\* C10 (as claimed): bind on a name that is already bound fails with a
\* duplicate-binding error, leaves the registry unchanged and publishes no
\* 'service-bind' notification.
C10_DuplicateBindRejected ==
    [][ (Len(apiLog') = Len(apiLog) + 1
           /\ apiLog'[Len(apiLog')].name \in DOMAIN services) =>
            /\ apiLog'[Len(apiLog')].threw
            /\ services' = services
            /\ bindLog' = bindLog ]_vars

\* C10 (amended): bind on a name that is already bound replaces the instance
\* of that name in the registry, leaves every other entry alone, and publishes
\* exactly one 'service-bind' notification carrying the name and the new instance.
C10_DuplicateBindReplaces ==
    [][ (Len(apiLog') = Len(apiLog) + 1
           /\ apiLog'[Len(apiLog')].name \in DOMAIN services) =>
            LET call == apiLog'[Len(apiLog')]
            IN /\ DOMAIN services' = DOMAIN services
               /\ services'[call.name] = call.service
               /\ \A other \in DOMAIN services \ {call.name} :
                      services'[other] = services[other]
               /\ bindLog' = Append(bindLog, Event(call.name, call.service)) ]_vars

\* bind was called twice for one name, by start or by a caller and then by a
\* caller, and both notifications were published
C10_Witness ==
    /\ Len(apiLog) > 0
    /\ LET call == apiLog[Len(apiLog)]
       IN /\ BindsOf(call.name) >= 2
          /\ bindLog[Len(bindLog)] = Event(call.name, call.service)
          /\ services[call.name] = call.service

\* C11 (as claimed): start fails, and gives no backbone to its caller, whenever
\* layers is not an array or is an empty array.
C11_EmptyOrNonArrayRejected ==
    (pc # "idle" /\ (given # "array" \/ Len(layers) = 0)) =>
        pc = "failed" /\ ~held

\* C11 (amended): start fails with the TypeError 'Service layers must be an
\* array', creating and returning no backbone, when layers is not an array; for
\* the empty array it succeeds and returns a backbone with nothing bound by start.
C11_NonArrayRejectedEmptyAccepted ==
    pc # "idle" =>
        /\ given # "array" =>
              /\ pc = "failed"
              /\ error = LayersNotArray
              /\ ~held
              /\ services = <<>> /\ bindLog = <<>>
        /\ (given = "array" /\ Len(layers) = 0) =>
              /\ pc = "done"
              /\ error = NoError
              /\ held
              /\ Len(apiLog) = 0 => services = <<>>

\* start was called with a value that is no array and has failed
C11_Witness ==
    /\ given \in NotArrays
    /\ pc = "failed"
    /\ error = LayersNotArray

\* the factories of the current layer that were called and threw or rejected
FailedFactories ==
    {j \in DOMAIN pending : pending[j].ran /\ pending[j].state = "rejected"}

\* C12: once a factory of layer idx has thrown or rejected, start does not
\* bind the layer and resolves no descriptor of a later layer; when start
\* rejects it rejects with the factory's failure, and no name bound before
\* leaves the registry.  (The only layer whose factories the code calls is
\* layer 0.)
C12_FactoryFailureAbortsStart ==
    [][ FailedFactories # {} =>
            /\ idx' = idx
            /\ pc' \in {"load", "await", "failed"}
            /\ (pc # "failed" /\ pc' = "failed") =>
                  \E j \in FailedFactories : error' = pending[j].value
            /\ \A name \in DOMAIN services :
                  name \in DOMAIN services' ]_vars

\* start has rejected with the failure of a factory it called, in a list that
\* has a layer after the failing one, after a caller bound a service
C12_Witness ==
    /\ pc = "failed"
    /\ Len(layers) > idx + 1
    /\ \E j \in FailedFactories :
          /\ error = FactoryFailure(names[j])
          /\ pending[j].value = error
    /\ services # <<>>

\* the items the server emitted in answer to the request handled[j]
RepliesTo(j) == {i \in DOMAIN replies : replies[i].re = j}

\* C13 (as claimed): for every request the server received on message.<name>
\* it emits exactly one reply, to the peer that sent the request only and with
\* the request's call id: the result on message.<name> when the handler
\* succeeded, else an error on error.<name>, whatever the handler failed with.
C13_OneReplyPerRequest ==
    \A j \in DOMAIN handled :
        /\ Cardinality(RepliesTo(j)) = 1
        /\ \A i \in RepliesTo(j) :
              /\ replies[i].to = {handled[j].peer}
              /\ replies[i].data.id = handled[j].id
              /\ IF handled[j].outcome.threw
                 THEN replies[i].topic = <<"error", handled[j].name>>
                 ELSE /\ replies[i].topic = <<"message", handled[j].name>>
                      /\ replies[i].data.message = handled[j].outcome.value

\* the outcome of a call that timed out
TimedOut(id) ==
    [state |-> "rejected",
     value |-> [type |-> "object", id |-> id, message |-> TimeoutText]]

\* the requests of the client with a call id that the server has handled
HandledFor(id) == {j \in DOMAIN handled : handled[j].peer = "client" /\ handled[j].id = id}

\* C14: a pending call is completed by the first arrival for its call id or by
\* its timer: a response resolves it with the result, an error rejects it with
\* the error text, the timer rejects it with the timeout error; and the result
\* of a round trip is what the server's handler returned for that call.
C14_CompletedByFirstArrival ==
    [][ \A id \in DOMAIN promise :
            (promise[id].state = "pending" /\ promise'[id].state # "pending") =>
                \/ /\ ridx' # ridx
                   /\ replies[ridx'].data.id = id
                   /\ replies[ridx'].topic[1] = "message"
                   /\ promise'[id] = [state |-> "resolved",
                                      value |-> replies[ridx'].data.message]
                   /\ \E j \in HandledFor(id) :
                         handled[j].outcome = Return(promise'[id].value)
                \/ /\ ridx' # ridx
                   /\ replies[ridx'].data.id = id
                   /\ replies[ridx'].topic[1] = "error"
                   /\ promise'[id] = [state |-> "rejected",
                                      value |-> replies[ridx'].data.message]
                   /\ \E j \in HandledFor(id) :
                         /\ handled[j].outcome.threw
                         /\ errorMessage(handled[j].outcome.value) =
                               Return(promise'[id].value)
                \/ /\ ridx' = ridx
                   /\ timer[id] = "armed" /\ timer'[id] = "fired"
                   /\ promise'[id] = TimedOut(id) ]_vars

\* one call resolved with what the handler returned, another rejected with
\* the text of the handler's error
C14_Witness ==
    \E id, other \in DOMAIN promise :
        /\ promise[id].state = "resolved"
        /\ \E j \in HandledFor(id) : handled[j].outcome = Return(promise[id].value)
        /\ promise[other].state = "rejected"
        /\ promise[other] # TimedOut(other)

\* C15: a response or an error that arrives after the call timed out changes
\* nothing of the call's outcome, which stays the timeout failure; and a call
\* completed by an arrival has its timer cleared, and the timer never fires.
C15_LateArrivalDiscardedTimerCancelled ==
    [][ \A id \in DOMAIN promise :
            /\ promise[id] = TimedOut(id) => promise'[id] = TimedOut(id)
            /\ (promise[id].state # "pending" /\ promise[id] # TimedOut(id)) =>
                  /\ timer[id] = "cleared"
                  /\ timer'[id] = "cleared" ]_vars

\* a call that timed out and then got a response, and a call that a response
\* completed
C15_Witness ==
    \E id, other \in DOMAIN promise :
        /\ promise[id] = TimedOut(id)
        /\ "response" \in attempts.by[id]
        /\ promise[other].state = "resolved"
        /\ timer[other] = "cleared"

\* C16: call ids are never reused by a client: every call gets the id
\* <name>.<counter> of its message name and the counter, the counter grows by
\* one with every call, so any two calls have different ids.
C16_CallIdsNeverReused ==
    /\ Len(sent) = midx
    /\ \A i \in DOMAIN sent :
          /\ sent[i].id = CallId(sent[i].topic[2], i - 1)
          /\ sent[i].id \in DOMAIN promise
    /\ \A i, j \in DOMAIN sent :
          i < j => sent[i].id # sent[j].id /\ sent[i].id[2] < sent[j].id[2]
    /\ Cardinality(DOMAIN promise) = midx

\* two calls of one message name were issued
C16_Witness ==
    /\ Len(sent) >= 2
    /\ sent[1].topic = sent[2].topic
    /\ sent[1].id # sent[2].id

\* the local emissions that the started remote server has to broadcast
IsRegisteredEmission(r) == r.mode = "remote" /\ r.name \in HostEvents
\* the broadcasts among what the server emitted
IsBroadcast(item) == item.topic[1] = "event"
\* the broadcasts the client's socket has delivered, of events set on the client
RECURSIVE DeliveredEvents(_)
DeliveredEvents(n) ==
    IF n = 0 THEN <<>>
    ELSE DeliveredEvents(n - 1) \o
         (IF /\ IsBroadcast(replies[n])
             /\ "client" \in replies[n].to
             /\ replies[n].topic[2] \in ClientEvents
          THEN <<[name |-> replies[n].topic[2], payload |-> replies[n].data.message]>>
          ELSE <<>>)

\* C17: every local emission of an event name set on the server, on a server
\* started in remote mode, causes exactly one broadcast on event.<name> to the
\* peers connected then, and no other emission is broadcast; a client on which
\* the name is set re-emits it once for each broadcast delivered to it, with
\* the payload alone.
C17_EventsBroadcastAndReEmittedOnce ==
    LET due == SelectSeq(raised, IsRegisteredEmission)
        done == SelectSeq(replies, IsBroadcast)
    IN /\ Len(done) = Len(due)
       /\ \A i \in DOMAIN done :
             /\ done[i].topic = <<"event", due[i].name>>
             /\ done[i].data.message = due[i].payload
             /\ done[i].to = due[i].peers
       /\ emitted = DeliveredEvents(ridx)

\* the client re-emitted an event the server broadcast, another broadcast was
\* of a name not set on the client, and one emission was not broadcast at all
C17_Witness ==
    /\ Len(emitted) = 1
    /\ emitted[1].name = "ping"
    /\ emitted[1].payload \in Payloads
    /\ ridx = 2
    /\ Len(raised) = 3
    /\ Len(replies) = 2

\* the mapping that gives the type name 'object' to every name of a list
ObjectMapping(items) == IfMap([i \in DOMAIN items |-> <<items[i], Tag("object")>>])

\* C18: the predicate compiled from a list of names does on every candidate
\* what the predicate compiled from the mapping of each name to 'object' does.
C18_ListEqualsObjectMapping ==
    (verdict.applied /\ descriptor.type = "array") =>
        verdict = Verdict(ObjectMapping(descriptor.items), candidate)

\* a list of names was applied to a value that has an object under the name,
\* and the value conforms
C18_Witness ==
    /\ verdict.applied
    /\ descriptor = IfList(<<"conf", "conf">>)
    /\ candidate = Holder
    /\ verdict.value = Bool(TRUE)

\* C19 (as claimed): a list descriptor asks only that the value has every
\* listed property with a defined value of any kind, so a service with the
\* functions getTime and setTime conforms to ['getTime', 'setTime'].
C19_ListAsksForPresenceOnly ==
    (verdict.applied /\ descriptor.type = "array"
       /\ candidate.type = "object"
       /\ \A i \in DOMAIN descriptor.items :
             Prop(candidate, descriptor.items[i]).type \notin {"undefined", "null"}) =>
        verdict.value = Bool(TRUE)

RECURSIVE HasDeclaredKinds(_, _)
\* what the documentation asks of a value for a mapping: every declared
\* property is there, not null, and of its declared type, or satisfies its
\* nested descriptor
HasDeclaredKinds(entries, value) ==
    /\ value.type \notin {"undefined", "null"}
    /\ \A i \in DOMAIN entries :
          LET have == Prop(value, entries[i][1])
              kind == entries[i][2]
          IN /\ have.type \notin {"undefined", "null"}
             /\ IF kind.type = "string" THEN Tests(kind.tag, have)
                ELSE HasDeclaredKinds(IF kind.type = "array"
                                      THEN ObjectMapping(kind.items).entries
                                      ELSE kind.entries, have)

\* the type names of a mapping are all names Tests has
RECURSIVE WellFormed(_)
WellFormed(ifdef) ==
    \/ ifdef.type = "array"
    \/ /\ ifdef.type = "object"
       /\ \A i \in DOMAIN ifdef.entries :
             LET kind == ifdef.entries[i][2]
             IN IF kind.type = "string" THEN kind.tag \in TagNames ELSE WellFormed(kind)

\* C20 (as claimed): for every mapping descriptor and every candidate value the
\* predicate returns true exactly when every declared property is present with
\* its declared kind, a nested descriptor being satisfied by a present
\* property, and returns false for an absent or null property.
C20_MappingPredicateIsExact ==
    (verdict.applied /\ descriptor.type = "object" /\ WellFormed(descriptor)) =>
        /\ ~verdict.threw
        /\ verdict.value = Bool(HasDeclaredKinds(descriptor.entries, candidate))

\* C21: compile applied to what compile returned gives that same predicate, so
\* the predicate compiled twice does on every candidate what the predicate
\* compiled once does.
C21_CompileIsIdempotent ==
    /\ [][(predicate.times >= 1 /\ predicate'.times = predicate.times + 1) =>
            (~predicate'.threw /\ predicate'.value = predicate.value)]_vars
    /\ [](predicate.times >= 1 =>
            /\ predicate.threw = compile(descriptor).threw
            /\ predicate.value = compile(descriptor).value
            /\ verdict.applied => verdict = Verdict(descriptor, candidate))

\* a nested descriptor was compiled twice and the predicate kept was applied
\* to a value that conforms
C21_Witness ==
    /\ predicate.times = MaxCompiles
    /\ descriptor = IfMap(<< <<"conf", IfMap(<< <<"name", Tag("string")>> >>)>> >>)
    /\ candidate = Holder
    /\ verdict.applied
    /\ verdict.value = Bool(TRUE)

\* the qualifier of the event name of a call of on / once, and what follows it
ScopeOf(c) == SubSeq(c.eventName, 1, IndexOf(c.eventName))
RestOf(c) == SubSeq(c.eventName, IndexOf(c.eventName) + 2, Len(c.eventName))
IsQualified(c) == IndexOf(c.eventName) > 0

\* the registrations of one listener
SubsOf(listener) == {i \in DOMAIN subs : subs[i].listener = listener}

\* the value has the methods on and once
SupportsOnOnce(value) ==
    /\ value.type = "object"
    /\ Prop(value, "on").type = "function"
    /\ Prop(value, "once").type = "function"

\* the binds of a name up to the n-th published, and the binds of an instance
\* to the name after it
BindsUpTo(name, n) == {j \in 1..n : bindLog[j].name = name}
InstancesAfter(name, n) ==
    {j \in (n + 1)..Len(bindLog) : bindLog[j].name = name /\ bindLog[j].service # Undefined}

\* C22 (as claimed): a call of on / once with a name 'scope:event' made while
\* nothing is bound under scope does not fail and registers nothing on the
\* backbone's own bus; once an instance that has on and once is bound under
\* scope, the listener is registered exactly once, on that instance, under
\* 'event'.
C22_DeferredUntilScopeBound ==
    \A n \in DOMAIN subLog :
        LET c == subLog[n]
            later == InstancesAfter(ScopeOf(c), c.at)
            first == bindLog[Least(later)].service
        IN (IsQualified(c) /\ BindsUpTo(ScopeOf(c), c.at) = {}) =>
              /\ ~c.threw
              /\ \A i \in SubsOf(c.listener) : subs[i].target # "backbone"
              /\ (later # {} /\ SupportsOnOnce(first)) =>
                    /\ Cardinality(SubsOf(c.listener)) = 1
                    /\ \A i \in SubsOf(c.listener) :
                          subs[i].target = first.id /\ subs[i].event = RestOf(c)

\* C23 (as claimed): a call of on / once with a name that has no qualifier or
\* an empty one registers the listener on the backbone's own bus under the bare
\* event name; with a name 'scope:rest' whose scope is bound to an instance
\* that has on and once it registers the listener on that instance under
\* 'rest'; both with the method the caller used.
C23_ScopedRouting ==
    \A n \in DOMAIN subLog :
        LET c == subLog[n]
            at == IndexOf(c.eventName)
            before == BindsUpTo(ScopeOf(c), c.at)
            bound == bindLog[CHOOSE j \in before : \A other \in before : other <= j].service
        IN /\ at <= 0 =>
                /\ ~c.threw
                /\ Cardinality(SubsOf(c.listener)) = 1
                /\ \A i \in SubsOf(c.listener) :
                      /\ subs[i].target = "backbone"
                      /\ subs[i].event = (IF at = 0 THEN Tail(c.eventName) ELSE c.eventName)
                      /\ subs[i].method = c.method
           /\ (at > 0 /\ before # {} /\ SupportsOnOnce(bound)) =>
                /\ ~c.threw
                /\ Cardinality(SubsOf(c.listener)) = 1
                /\ \A i \in SubsOf(c.listener) :
                      /\ subs[i].target = bound.id
                      /\ subs[i].event = RestOf(c)
                      /\ subs[i].method = c.method

\* the handlers that were invoked in a step
Ran(i) == Len(cbLog'[i]) > Len(cbLog[i])

\* C30: a bind has stored the instance when it publishes 'service-bind', and
\* the event carries the name and the instance of that bind: every handler
\* invoked gets this event, and a deferred subscription that is tried again
\* during the notification finds the instance under the name.
C30_StoredBeforePublished ==
    [][Len(bindLog') = Len(bindLog) + 1 =>
          LET e == bindLog'[Len(bindLog')]
          IN /\ e.name \in DOMAIN services'
             /\ services'[e.name] = e.service
             /\ \A i \in DOMAIN cbLog :
                   Ran(i) => /\ Len(cbLog'[i]) = Len(cbLog[i]) + 1
                             /\ cbLog'[i][Len(cbLog'[i])] = e
             /\ \A i \in DOMAIN cbLog :
                   (Ran(i) /\ regs[i].callback.type = "retry") =>
                      IF e.service = Undefined
                      THEN \E j \in (DOMAIN regs') \ (DOMAIN regs) :
                              regs'[j].callback = regs[i].callback
                      ELSE IF InstanceOfEventEmitter(e.service)
                      THEN \E j \in (DOMAIN subs') \ (DOMAIN subs) :
                              /\ subs'[j].listener = regs[i].callback.listener
                              /\ subs'[j].target = e.service.id
                      ELSE apiLog'[Len(apiLog')].threw]_vars

\* two deferred subscriptions were tried again by one bind and both found the
\* instance
C30_Witness ==
    /\ Len(bindLog) = 1
    /\ bindLog[1].service = Emitter("db1")
    /\ Len(subs) = MaxSubs
    /\ \A i \in DOMAIN subs : subs[i].target = "db1"
    /\ \A i \in DOMAIN regs : regs[i].callback.type = "retry" /\ cbLog[i] = <<bindLog[1]>>

C25_LinkEventsChangeOnlyTheFlag ==
    [][Len(links') > Len(links) =>
          /\ connected' = (links'[Len(links')].event = "connect")
          /\ UNCHANGED <<midx, pendings, timer, promise, sent>>]_vars

\* the channel disconnected while a call was pending, and the call is still
\* pending with its timer armed
C25_Witness ==
    \E i \in DOMAIN links :
        /\ links[i].event = "disconnect"
        /\ \E id \in links[i].pending :
              /\ id \in DOMAIN pendings
              /\ timer[id] = "armed"
              /\ promise[id].state = "pending"

\* C26 (as claimed): with several requests in flight, the failure of one
\* handler is answered to the peer that sent the request and to nobody else,
\* leaves every other request in flight, adds nothing to what the server
\* emitted for other requests, and the server goes on serving; every request
\* whose handler returned has its reply.
C26_HandlerFailuresAreIsolated ==
    /\ [](mode # "crashed")
    /\ [](\A i \in DOMAIN replies :
             replies[i].re # 0 => replies[i].to = {handled[replies[i].re].peer})
    /\ [](\A j \in DOMAIN handled :
             ~handled[j].outcome.threw =>
                /\ Cardinality(RepliesTo(j)) = 1
                /\ \A i \in RepliesTo(j) :
                      /\ replies[i].topic = <<"message", handled[j].name>>
                      /\ replies[i].data = [id |-> handled[j].id,
                                            message |-> handled[j].outcome.value])
    /\ [][(Len(handled') > Len(handled) /\ handled'[Len(handled')].outcome.threw) =>
            /\ Len(inflight') = Len(inflight) - 1
            /\ \A r \in Range(inflight') : r \in Range(inflight)
            /\ SubSeq(replies', 1, Len(replies)) = replies
            /\ \A i \in (Len(replies) + 1)..Len(replies') :
                  replies'[i].re = Len(handled')]_vars

\* C27 (as claimed): a factory all of whose declared parameter names are in
\* the registry is invoked exactly once, with the registry values of these
\* names in declaration order as its arguments and the backbone as this; a
\* definition that is no function is the instance, unchanged.
C27_FactoryGetsDeclaredArguments ==
    (given = "array" /\ Len(apiLog) = 0 /\ Len(bindLog) = 0) =>
        \A j \in DOMAIN pending :
            LET def == layer[j][2]
                calls == {i \in DOMAIN invoked : invoked[i].name = names[j]}
            IN IF TypeOf(def) = "function"
               THEN (\A n \in DOMAIN def.params : Get(services, def.params[n]) # Undefined) =>
                       /\ Cardinality(calls) = 1
                       /\ \A i \in calls :
                             /\ invoked[i].def = def
                             /\ invoked[i].args = [n \in DOMAIN def.params |->
                                                      Get(services, def.params[n])]
                             /\ invoked[i].this = "app"
               ELSE pending[j] = Fulfilled(def)

\* the parameters of a definition that its own layer declares and no earlier
\* layer does
OwnLayerNames(def) ==
    IF TypeOf(def) = "function"
    THEN {p \in Range(def.params) :
             /\ \E i \in DOMAIN layer : layer[i][1] = p
             /\ p \notin DeclaredBefore(layers, idx)}
    ELSE {}

\* C29 (as claimed): a factory that declares a name of its own layer is not
\* invoked and its load fails with the unresolved-dependency error for that
\* name, wherever the name stands in the layer, and start does not succeed.
C29_OwnLayerIsNotResolved ==
    (given = "array" /\ Len(apiLog) = 0) =>
        \A j \in DOMAIN pending :
            OwnLayerNames(layer[j][2]) # {} =>
               /\ ~pending[j].ran
               /\ pending[j].state = "rejected"
               /\ \E D \in OwnLayerNames(layer[j][2]) :
                     pending[j].value = UnresolvedDependency(D, names[j])
               /\ pc # "done"

\* C28: every call that was issued completes in the end, given only that an
\* armed timer fires: whether a response comes or none, whether the channel is
\* connected, disconnected, or disconnects while the call is pending.
C28_EveryCallCompletes ==
    \A id \in CallIds :
        (id \in DOMAIN promise) ~> (id \in DOMAIN promise /\ promise[id].state # "pending")

\* a call that was pending when the channel disconnected, and got no response
\* or error, has timed out
C28_Witness ==
    \E id \in DOMAIN promise :
        /\ promise[id] = TimedOut(id)
        /\ attempts.by[id] = {"timeout"}
        /\ \E i \in DOMAIN links : links[i].event = "disconnect" /\ id \in links[i].pending

(***************************************************************************)
(* onServiceBind with once = false.                                        *)
(***************************************************************************)
\* the bind events of a name published after the first n events, in order
LaterEvents(name, n) ==
    SelectSeq(SubSeq(bindLog, n + 1, Len(bindLog)), LAMBDA e : e.name = name)

\* C31 (as claimed): the callback of onServiceBind(x, cb, false) is invoked once
\* at registration when x is bound then and, in addition, once for every later
\* bind of x, with that bind's event; it is invoked for no bind of another name,
\* and its handler stays registered.
C31_EveryBindInvokesCallback ==
    \A i \in DOMAIN regs :
        (regs[i].kind = "named" /\ ~regs[i].once) =>
            LET later == LaterEvents(regs[i].name, regs[i].at)
                first == IF regs[i].found THEN 1 ELSE 0
            IN /\ Len(cbLog[i]) = first + Len(later)
               /\ \A n \in DOMAIN cbLog[i] : cbLog[i][n].name = regs[i].name
               /\ \A n \in DOMAIN later :
                      first + n <= Len(cbLog[i]) => cbLog[i][first + n] = later[n]
               /\ \E n \in DOMAIN listeners : listeners[n] = i

(***************************************************************************)
(* The error text of a failed handler.                                     *)
(***************************************************************************)
\* String( value ) of a failure value
StringOf(value) ==
    IF value.type = "string" THEN value
    ELSE IF value.type \in {"undefined", "null"} THEN Tag(value.type)
    ELSE Tag("[object Object]")

\* the description field of a failure value if set, otherwise its message
\* field, otherwise its string conversion
ErrorTextOf(value) ==
    LET field(name) == IF value.type = "object" THEN Prop(value, name) ELSE Undefined
    IN IF field("description") # Undefined THEN field("description")
       ELSE IF field("message") # Undefined THEN field("message")
       ELSE StringOf(value)

\* C32 (as claimed): for every request whose handler failed, whatever it threw
\* or rejected with, the server sends an error whose text is the failure
\* value's description if set, otherwise its message, otherwise its string
\* conversion.
C32_ErrorTextByPriority ==
    \A j \in DOMAIN handled :
        handled[j].outcome.threw =>
            \E i \in RepliesTo(j) :
                /\ replies[i].topic = <<"error", handled[j].name>>
                /\ replies[i].data.message = ErrorTextOf(handled[j].outcome.value)

(***************************************************************************)
(* compile on malformed descriptors.                                       *)
(***************************************************************************)
RECURSIVE Malformed(_)
\* a descriptor that is neither a list nor a mapping, or a mapping that gives
\* a property a type name outside the six or a malformed nested descriptor
Malformed(ifdef) ==
    \/ ifdef.type \notin {"array", "object"}
    \/ /\ ifdef.type = "object"
       /\ \E i \in DOMAIN ifdef.entries :
             LET kind == ifdef.entries[i][2]
             IN IF kind.type = "string" THEN kind.tag \notin TagNames ELSE Malformed(kind)

\* C33 (as claimed): compile raises an error and returns no predicate for every
\* malformed descriptor.
C33_MalformedDescriptorFails ==
    (predicate.times >= 1 /\ Malformed(descriptor)) =>
        /\ predicate.threw
        /\ predicate.value.type \in {"Error", "TypeError"}

(***************************************************************************)
(* What a scope has to be.                                                 *)
(***************************************************************************)
\* the instance bound under the scope of a call of on / once when it was made
BoundScope(c) ==
    LET before == BindsUpTo(ScopeOf(c), c.at)
    IN IF before = {} THEN Undefined
       ELSE bindLog[CHOOSE j \in before : \A other \in before : other <= j].service

\* C34 (as claimed): a call of on / once with a name 'scope:event' whose scope
\* is bound to an instance that provides on and once does not fail and is
\* delegated to that instance, whether or not the instance is an EventEmitter.
C34_ScopeNeedsOnlyOnOnce ==
    \A n \in DOMAIN subLog :
        LET c == subLog[n]
        IN (IsQualified(c) /\ SupportsOnOnce(BoundScope(c))) =>
              /\ ~c.threw
              /\ \E i \in SubsOf(c.listener) : subs[i].target = BoundScope(c).id

(***************************************************************************)
(* Arrivals that match no pending entry.                                   *)
(***************************************************************************)
\* C35 (as claimed): a response or an error whose call id matches no entry of
\* the pending map, because it was never issued or because its call was
\* completed and removed, completes no call, leaves every pending entry and
\* every timer as it is and raises no failure.
C35_UnmatchedArrivalIsNoOp ==
    [][(attempts'.n = attempts.n + 1 /\ attempts'.last \notin DOMAIN pendings) =>
           /\ pendings' = pendings
           /\ timer' = timer
           /\ promise' = promise
           /\ attempts'.threw = attempts.threw]_vars

(***************************************************************************)
(* Binding within a layer.                                                 *)
(***************************************************************************)
RECURSIVE NamesBefore(_)
\* how many names the first n layers declare
NamesBefore(n) == IF n = 0 THEN 0 ELSE NamesBefore(n - 1) + Len(layers[n])

\* how many binds start has made: every bind is published, and apiLog holds
\* the binds made by other code
StartBinds == Len(bindLog) - Len(apiLog)

\* a promise of the current layer is rejected
LayerFailed == \E j \in DOMAIN pending : pending[j].state = "rejected"

\* C36: once a factory of the current layer has failed, start has bound and
\* published none of the names of this layer, those whose promises are
\* fulfilled included, and it never binds one afterwards.
C36_LayerBindsAllOrNothing ==
    /\ [](LayerFailed => (StartBinds = NamesBefore(idx) /\ pc # "bind"))
    /\ [][LayerFailed => (LayerFailed' /\ StartBinds' = StartBinds)]_vars

\* the layer { db: null, '(toString)': a factory that rejects }: db was loaded,
\* the factory ran and failed, start has failed with its error, nothing is bound
C36_Witness ==
    /\ pc = "failed"
    /\ Len(pending) = 2
    /\ pending[1].state = "fulfilled"
    /\ pending[2].state = "rejected"
    /\ pending[2].ran
    /\ error = FactoryFailure(names[2])
    /\ bindLog = <<>>

(***************************************************************************)
(* One instance per IPCService.                                            *)
(***************************************************************************)
\* the instances the make functions of a getter constructed
MadeBy(m) == {i \in DOMAIN made : made[i].mode = m}

C38_BoundWhateverTheValue ==
    /\ \A i \in DOMAIN regs :
          (regs[i].kind = "named" /\ BindsUpTo(regs[i].name, regs[i].at) # {}) =>
              (regs[i].found /\ Len(cbLog[i]) >= 1)
    /\ \A x \in DOMAIN services :
          ~Lookup(<<x>>, <<"out">>, services).threw


(***************************************************************************)
(* bind of a value that is null or not an object.                          *)
(***************************************************************************)
\* C39 (as claimed): while conforming-interface listeners are registered, bind
\* completes for every service value: no bind made by a caller fails, no
\* onConformingServiceBind fails in listConformingServices, start does not fail
\* with a TypeError, and no conforming callback is invoked with a value that is
\* null or not an object.
C39_BindCompletesForEveryValue ==
    /\ \A n \in DOMAIN apiLog : ~apiLog[n].threw
    /\ \A i \in DOMAIN regs : regs[i].kind = "conforming" => ~regs[i].threw
    /\ (given = "array" /\ pc = "failed") => error.type # "TypeError"
    /\ \A i \in DOMAIN regs :
           regs[i].kind = "conforming" =>
               \A n \in DOMAIN cbLog[i] : cbLog[i][n].service.type = "object"

====
